---- MODULE Spec2Model ----
(***************************************************************************)
(* Reference API Buddy: a caching forward proxy.                           *)
(*                                                                         *)
(* The module models the cache engine (cache/engine.py), the throttle      *)
(* manager (throttling/manager.py) and the request pipeline                *)
(* (core/handler.py) as state machines over one set of variables.  Time is *)
(* the wall clock in whole seconds.                                        *)
(***************************************************************************)
EXTENDS Integers, Sequences, FiniteSets, TLC

(***************************************************************************)
(* Bounds of the model.                                                    *)
(***************************************************************************)
\* CacheEngine(max_cache_entries=...), scaled down
max_cache_entries == 2
\* CacheEngine(compression_threshold=...), scaled down
compression_threshold == 3
\* CacheEngine(max_response_size=...), scaled down
max_response_size == 5
\* number of set() calls in one behaviour of the cache specifications
MaxSets == 3
\* number of get() calls in one behaviour of the cache specifications
MaxGets == 2
\* number of clock advances in one behaviour
MaxTicks == 2

(***************************************************************************)
(* Program constants.                                                      *)
(***************************************************************************)
\* ThrottleManager.time_window
time_window == 3600
\* first byte of the zlib header written by zlib.compress (0x78)
ZMagic1 == 120
\* second byte of the zlib header at the default level (0x9c)
ZMagic2 == 156
\* TTLManager default_ttl when cache.default_ttl_seconds is not configured
builtin_default_ttl == 86400

\* ttl_seconds=None of a CachedResponse: the TTL is left to the engine
NoTtl == -1
\* domain_key=None of CacheEngine.set
NoDomain == "None"
\* instant at which the modelled process starts
StartTime == 10000

Keys == 1 .. (max_cache_entries + 1)

RECURSIVE Rep(_, _)
Rep(b, n) == IF n = 0 THEN <<>> ELSE <<b>> \o Rep(b, n - 1)

(***************************************************************************)
(* Response bodies: runs of zero bytes up to one byte over the size limit, *)
(* the same runs behind the two zlib header bytes, and a header followed   *)
(* by a wrong check byte.                                                  *)
(***************************************************************************)
Bodies ==
    {Rep(0, n) : n \in 0 .. (max_response_size + 1)}
    \cup {<<ZMagic1, ZMagic2>> \o Rep(0, n) : n \in 1 .. (max_response_size - 2)}
    \cup {<<ZMagic1, ZMagic2, 1>>}

(***************************************************************************)
(* zlib: a stream is the two header bytes, the payload and a check value   *)
(* of the payload; decompress raises on anything else.                     *)
(***************************************************************************)
RECURSIVE Checksum(_)
Checksum(b) == IF b = <<>> THEN 0 ELSE (b[1] + Checksum(Tail(b))) % 256

zlib_compress(b) == <<ZMagic1, ZMagic2>> \o b \o <<Checksum(b)>>

zlib_is_stream(x) ==
    /\ Len(x) >= 3
    /\ x[1] = ZMagic1
    /\ x[2] = ZMagic2
    /\ x[Len(x)] = Checksum(SubSeq(x, 3, Len(x) - 1))

zlib_decompress(x) == SubSeq(x, 3, Len(x) - 1)

(***************************************************************************)
(* json.dumps / json.loads of the header dictionary (str -> str).          *)
(***************************************************************************)
json_dumps(h) == <<"json", h>>

json_loads(j) == j[2]

(***************************************************************************)
(* Configuration of the modelled deployment.                               *)
(***************************************************************************)
\* domain_mappings: x carries a ttl_seconds override, y does not, z has an
\* empty upstream
MappedDomains == {"x", "y", "z"}

\* cache.default_ttl_seconds as configured in the modelled deployment
default_ttl_seconds == 2
\* domain_mappings.x.ttl_seconds
x_ttl_seconds == 1

\* throttling.default_requests_per_hour, scaled down
default_requests_per_hour == 2
\* throttling.domain_limits.x, scaled down
x_limit == 1
\* throttling.domain_limits
domain_limits == [x |-> x_limit]
\* throttling.progressive_max_delay
progressive_max_delay == 8
\* number of record_request calls in one behaviour of the throttle
\* specification
MaxRecords == 3
\* number of should_throttle calls in one behaviour of the throttle
\* specification
MaxDecisions == 3
\* number of clock advances in one behaviour of the throttle specification
MaxThrottleTicks == 1
\* number of requests in one behaviour of the pipeline specification
MaxRequests == 3
\* number of requests in one behaviour of the burst specification
BurstRequests == 6
\* admin.rate_limit_per_minute of the configuration
rate_limit_per_minute == 1
\* number of admin requests in one behaviour
MaxAdminRequests == 3
\* number of clock advances in one behaviour of the admin specification
MaxAdminTicks == 1
\* number of clock advances in one behaviour of the penalty specification
MaxPenaltyTicks == 3
\* number of reset_throttle calls in one behaviour
MaxResets == 1
\* number of requests and of clock advances in one behaviour of the
\* throttle-section specification
MaxGateRequests == 3
MaxGateTicks == 2
\* longest target URL given to _forward_request, in characters
MaxUrlLen == 4
\* number of set() calls in one behaviour of the stores specification
MaxStores == 3
\* number of CachingProxy.start and stop calls in one behaviour
MaxStarts == 2
MaxStops == 2
\* number of execute_query/execute_update calls in one behaviour
MaxCalls == 1
\* number of requests in one behaviour of the stop specification
StopRequests == 2
\* number of connections opened in one behaviour of the pool specification
MaxConns == 7
\* number of requests in one behaviour of the scenario specification
ScenarioRequests == 3
\* number of requests in one behaviour of the requests specification
MaxFormRequests == 2
\* number of set, get and delete calls in one behaviour of the threads
\* specification
MaxThreadCalls == 4
\* number of clock advances in one behaviour of the threads specification
MaxThreadTicks == 1

VARIABLES
    now,              \* wall clock, seconds since the epoch (UTC)
    ticks,            \* number of clock advances so far
    tz,               \* offset of the local time zone from UTC, seconds
    has_ttl_manager,  \* CacheEngine was constructed with a config
    entries,          \* table cache_entries: cache_key -> row
    stats,            \* CacheEngine._stats
    opseq,            \* number of cache accesses so far (history)
    touch,            \* cache_key -> opseq of its last store or hit (history)
    stored,           \* cache_key -> response given to its last store (history)
    last,             \* the cache operation that ran last (history)
    states,           \* ThrottleManager.states: domain -> ThrottleState
    hist,             \* domain -> record_request / should_throttle calls (history)
    require_secure_key, \* security.require_secure_key
    pc,               \* worker -> the pipeline step its request is at
    req,              \* worker -> the request it is handling
    trace,            \* worker -> the steps its request has taken (history)
    fwd,              \* worker -> what _forward_request returned
    hdr,              \* worker -> values read for the 429 headers
    served,           \* status and Retry-After of every finished request (history)
    done,             \* the request that finished last (history)
    upstream_calls,   \* number of network calls made to upstreams (history)
    log,              \* the log messages of the request handled last
    lock,             \* CacheEngine._lock: the thread holding it, 0 when free
    th,               \* thread -> where it is in its CacheEngine call, its locals
    started,          \* number of calls of each kind begun by threads (history)
    concluded,        \* the store that returned last (history)
    server,           \* ThreadedHTTPServer: how far start() and stop() have got
    pool,             \* DatabaseManager._pool: the idle connections
    held,             \* the connections borrowed by get_connection callers
                      \* other than execute_query/execute_update, not yet returned
    closed_conns,     \* the connections that have been closed
    conns,            \* number of connections opened so far
    pool_last,        \* the pool operation that ran last (history)
    call,             \* DatabaseManager.execute_query/execute_update in progress
    proxy_limiter,    \* proxy._admin_rate_limiter: 0 while the attribute is unset
    limiters,         \* the AdminRateLimiter objects created: IP -> timestamps
    adm,              \* each admin handler thread: position and local values
    admin_log,        \* the admin requests answered so far (history)
    fn_in,            \* arguments of the function applied by the function specifications
    fn_out,           \* what the function returned
    proxy,            \* CachingProxy: running, server, and what stop() did last
    store,            \* the response each thread is storing, whether another
                      \* store of its key ran meanwhile, and the last REPLACE
    gate,             \* handler thread -> where its request is in the throttle
                      \* section of _handle_request, and what it has read
    gate_log,         \* the requests that left the throttle section (history)
    mutex,            \* "cache", "throttle", "pool" -> the thread holding that
                      \* threading.Lock, 0 when it is free
    work              \* thread -> the operation it runs and its position in
                      \* the operation's lock events

envVars == <<now, ticks, tz, has_ttl_manager>>
cacheVars == <<entries, stats, opseq, touch, stored, last>>
cacheHist == <<opseq, touch, stored, last>>
throttleVars == <<states, hist>>
pipeVars == <<pc, req, trace, fwd, hdr, served, done, upstream_calls, log>>
threadVars == <<lock, th, started, concluded>>
serverVars == <<server>>
poolVars == <<pool, held, closed_conns, conns, pool_last>>
callVars == <<call>>
adminVars == <<proxy_limiter, limiters, adm, admin_log>>
fnVars == <<fn_in, fn_out>>
proxyVars == <<proxy>>
storeVars == <<store>>
gateVars == <<gate, gate_log>>
lockVars == <<mutex, work>>
serviceVars == <<callVars, adminVars, fnVars, proxyVars, storeVars, gateVars,
                 lockVars>>
backgroundVars == <<threadVars, serverVars, poolVars, serviceVars>>
vars == <<envVars, require_secure_key, cacheVars, throttleVars, pipeVars,
          backgroundVars>>

(***************************************************************************)
(* TTLManager                                                              *)
(***************************************************************************)
get_default_ttl == default_ttl_seconds

get_ttl_for_domain(domain_key) ==
    IF domain_key = "x" THEN x_ttl_seconds ELSE get_default_ttl

(***************************************************************************)
(* CacheEngine                                                             *)
(***************************************************************************)
ZeroStats ==
    [hits |-> 0, misses |-> 0, evictions |-> 0, sets |-> 0,
     expired |-> 0, compressed |-> 0, decompressed |-> 0]

Restrict(E, ks) == [k \in ks |-> E[k]]

\* DELETE FROM cache_entries WHERE cache_key = ?
delete(E, k) == Restrict(E, DOMAIN E \ {k})

\* rowid given to an inserted row: one more than the largest rowid in use
RECURSIVE MaxRowid(_, _)
MaxRowid(E, ks) ==
    IF ks = {} THEN 0
    ELSE LET k == CHOOSE x \in ks : TRUE
             m == MaxRowid(E, ks \ {k})
         IN  IF E[k].rowid > m THEN E[k].rowid ELSE m

NewRowid(E) == MaxRowid(E, DOMAIN E) + 1

\* INSERT OR IGNORE in place of REPLACE: a key that has a row keeps it
insert_or_ignore(E, k, data, headers, status_code, ttl, t) ==
    IF k \in DOMAIN E THEN E
    ELSE [x \in DOMAIN E \cup {k} |->
             IF x = k
             THEN [data |-> data, headers |-> headers,
                   status_code |-> status_code, created_at |-> t,
                   ttl_seconds |-> ttl, access_count |-> 0,
                   last_accessed |-> t, rowid |-> NewRowid(E)]
             ELSE E[x]]

\* REPLACE INTO cache_entries ...: the old row of the key goes, a new one is
\* inserted with created_at = last_accessed = CURRENT_TIMESTAMP
replace_into(E, k, data, headers, status_code, ttl, t) ==
    LET E0 == delete(E, k)
        row == [data |-> data, headers |-> headers, status_code |-> status_code,
                created_at |-> t, ttl_seconds |-> ttl, access_count |-> 0,
                last_accessed |-> t, rowid |-> NewRowid(E0)]
    IN  [x \in DOMAIN E0 \cup {k} |-> IF x = k THEN row ELSE E0[x]]

\* ORDER BY last_accessed ASC through idx_cache_last_accessed: equal
\* timestamps come out in rowid order
OrderedBefore(E, a, b) ==
    \/ E[a].last_accessed < E[b].last_accessed
    \/ /\ E[a].last_accessed = E[b].last_accessed
       /\ E[a].rowid < E[b].rowid

\* SELECT cache_key ... ORDER BY last_accessed ASC LIMIT n
OldestRows(E, n) ==
    {k \in DOMAIN E : Cardinality({j \in DOMAIN E : OrderedBefore(E, j, k)}) < n}

RECURSIVE _evict_if_needed(_)
_evict_if_needed(E) ==
    LET count == Cardinality(DOMAIN E)
    IN  IF count <= max_cache_entries THEN E
        ELSE _evict_if_needed(
                 Restrict(E, DOMAIN E \ OldestRows(E, count - max_cache_entries)))

\* int(created_at.timestamp()): the stored UTC wall-clock value is read as a
\* naive local time
created_ts(created_at) == created_at - tz

\* the test "now > created_ts + ttl_seconds" of get and _cleanup_expired_entries
is_expired(row, t) == t > created_ts(row.created_at) + row.ttl_seconds

NoResp ==
    [data |-> <<>>, headers |-> "none", status_code |-> 0, ttl_seconds |-> 0,
     created_at |-> 0, access_count |-> 0, last_accessed |-> 0]

\* CacheEngine.get: the table, the statistics and the return value
\* get that reports an expired entry as a miss but leaves it in the table
get_keeping_expired(E, S, k, t) ==
    IF k \in DOMAIN E /\ is_expired(E[k], t)
    THEN [entries |-> E, stats |-> [S EXCEPT !.expired = @ + 1],
          outcome |-> "expired", resp |-> NoResp]
    ELSE IF k \notin DOMAIN E
    THEN [entries |-> E, stats |-> [S EXCEPT !.misses = @ + 1],
          outcome |-> "miss", resp |-> NoResp]
    ELSE [entries |-> [E EXCEPT ![k].access_count = @ + 1,
                                ![k].last_accessed = t],
          stats |-> [S EXCEPT !.hits = @ + 1],
          outcome |-> "hit",
          resp |-> [data |-> E[k].data, headers |-> json_loads(E[k].headers),
                    status_code |-> E[k].status_code,
                    ttl_seconds |-> E[k].ttl_seconds,
                    created_at |-> E[k].created_at,
                    access_count |-> E[k].access_count + 1,
                    last_accessed |-> E[k].last_accessed]]

get(E, S, k, t) ==
    IF k \notin DOMAIN E
    THEN [entries |-> E, stats |-> [S EXCEPT !.misses = @ + 1],
          outcome |-> "miss", resp |-> NoResp]
    ELSE
      LET row == E[k] IN
      IF is_expired(row, t)
      THEN [entries |-> delete(E, k), stats |-> [S EXCEPT !.expired = @ + 1],
            outcome |-> "expired", resp |-> NoResp]
      ELSE
        LET magic == /\ Len(row.data) >= 2
                     /\ row.data[1] = ZMagic1
                     /\ row.data[2] = ZMagic2
            inflate == magic /\ zlib_is_stream(row.data)
            data == IF inflate THEN zlib_decompress(row.data) ELSE row.data
            S1 == IF inflate THEN [S EXCEPT !.decompressed = @ + 1] ELSE S
        IN  [entries |-> [E EXCEPT ![k].access_count = @ + 1,
                                   ![k].last_accessed = t],
             stats |-> [S1 EXCEPT !.hits = @ + 1],
             outcome |-> "hit",
             resp |-> [data |-> data, headers |-> json_loads(row.headers),
                       status_code |-> row.status_code,
                       ttl_seconds |-> row.ttl_seconds,
                       created_at |-> row.created_at,
                       access_count |-> row.access_count + 1,
                       last_accessed |-> row.last_accessed]]

\* TTL resolution at the top of CacheEngine.set
resolve_ttl(ttl_seconds, domain_key) ==
    IF has_ttl_manager /\ ttl_seconds = NoTtl
    THEN IF domain_key # NoDomain THEN get_ttl_for_domain(domain_key)
         ELSE get_default_ttl
    ELSE ttl_seconds

\* set that also refuses a body of exactly max_response_size bytes
set_strict(E, S, k, r, domain_key, t) ==
    IF Len(r.data) >= max_response_size
    THEN [entries |-> E, stats |-> S, outcome |-> "rejected"]
    ELSE
      LET ttl == resolve_ttl(r.ttl_seconds, domain_key)
          compressed == Len(r.data) > compression_threshold
          data == IF compressed THEN zlib_compress(r.data) ELSE r.data
      IN  IF ttl = NoTtl
          THEN [entries |-> E, stats |-> S, outcome |-> "raised"]
          ELSE
            LET E1 == replace_into(E, k, data, json_dumps(r.headers),
                                   r.status_code, ttl, t)
                E2 == _evict_if_needed(E1)
                n == Cardinality(DOMAIN E1) - Cardinality(DOMAIN E2)
                S1 == [S EXCEPT !.evictions = @ + n, !.sets = @ + 1]
            IN  [entries |-> E2,
                 stats |-> IF compressed THEN [S1 EXCEPT !.compressed = @ + 1]
                           ELSE S1,
                 outcome |-> "stored"]

\* CacheEngine.set: the table, the statistics and the way the call ends:
\* "stored" (returns True), "rejected" (returns False) or "raised" (the
\* NOT NULL constraint on ttl_seconds aborts the REPLACE)
set(E, S, k, r, domain_key, t) ==
    IF Len(r.data) > max_response_size
    THEN [entries |-> E, stats |-> S, outcome |-> "rejected"]
    ELSE
      LET ttl == resolve_ttl(r.ttl_seconds, domain_key)
          compressed == Len(r.data) > compression_threshold
          data == IF compressed THEN zlib_compress(r.data) ELSE r.data
      IN  IF ttl = NoTtl
          THEN [entries |-> E, stats |-> S, outcome |-> "raised"]
          ELSE
            LET E1 == replace_into(E, k, data, json_dumps(r.headers),
                                   r.status_code, ttl, t)
                E2 == _evict_if_needed(E1)
                n == Cardinality(DOMAIN E1) - Cardinality(DOMAIN E2)
                S1 == [S EXCEPT !.evictions = @ + n, !.sets = @ + 1]
            IN  [entries |-> E2,
                 stats |-> IF compressed THEN [S1 EXCEPT !.compressed = @ + 1]
                           ELSE S1,
                 outcome |-> "stored"]

(***************************************************************************)
(* ThrottleManager                                                         *)
(***************************************************************************)
\* ThrottleState()
NewThrottleState ==
    [violations |-> 0, delay_seconds |-> 1, last_violation |-> 0,
     total_requests |-> 0, request_timestamps |-> <<>>]

\* self.domain_limits.get(domain, self.default_limit)
limit_for(domain) ==
    IF domain \in DOMAIN domain_limits THEN domain_limits[domain]
    ELSE default_requests_per_hour

Min(a, b) == IF a < b THEN a ELSE b

RECURSIVE Pow2(_)
Pow2(k) == IF k = 0 THEN 1 ELSE 2 * Pow2(k - 1)

RECURSIVE DropOld(_, _)
DropOld(ts, t) ==
    IF ts # <<>> /\ (t - ts[1]) > time_window THEN DropOld(Tail(ts), t) ELSE ts

\* a clean-up that also ends the back-off once the window is empty
_cleanup_with_decay(st, t) ==
    [st EXCEPT !.request_timestamps = DropOld(@, t),
               !.delay_seconds = IF DropOld(st.request_timestamps, t) = <<>>
                                 THEN 1 ELSE @]

_cleanup_old_requests(st, t) ==
    [st EXCEPT !.request_timestamps = DropOld(@, t)]

\* a penalty window that is still open when exactly delay_seconds have passed
in_penalty_window_closed(st, t) ==
    st.delay_seconds > 1 /\ (t - st.last_violation) <= st.delay_seconds

\* state.delay_seconds > 1 and (now - state.last_violation) < state.delay_seconds
in_penalty_window(st, t) ==
    st.delay_seconds > 1 /\ (t - st.last_violation) < st.delay_seconds

\* a reset that replaces the state of every domain
reset_throttle_all(S, domain) ==
    [d \in DOMAIN S |-> NewThrottleState]

\* reset_throttle: self.states[domain] = ThrottleState()
reset_throttle(S, domain) ==
    [S EXCEPT ![domain] = NewThrottleState]

\* record_request that appends the timestamp without counting the request
record_request_uncounted(st, t) ==
    _cleanup_old_requests([st EXCEPT !.request_timestamps = Append(@, t)], t)

record_request(st, t) ==
    _cleanup_old_requests(
        [st EXCEPT !.request_timestamps = Append(@, t),
                   !.total_requests = @ + 1], t)

\* back-off that grows by steps of two instead of doubling
_apply_linear_throttling(st, t) ==
    [st EXCEPT !.violations = @ + 1,
               !.last_violation = t,
               !.delay_seconds =
                   Min(progressive_max_delay, IF @ > 1 THEN @ + 2 ELSE 2)]

_apply_progressive_throttling(st, t) ==
    [st EXCEPT !.violations = @ + 1,
               !.last_violation = t,
               !.delay_seconds =
                   Min(progressive_max_delay, IF @ > 1 THEN @ * 2 ELSE 2)]

\* should_throttle letting one request more than the limit through
should_throttle_above_limit(st, domain, t) ==
    LET s1 == _cleanup_old_requests(st, t)
    IN  IF Len(s1.request_timestamps) > limit_for(domain) + 1
        THEN [state |-> _apply_progressive_throttling(s1, t),
              result |-> TRUE, over |-> TRUE]
        ELSE IF in_penalty_window(s1, t)
        THEN [state |-> s1, result |-> TRUE, over |-> FALSE]
        ELSE [state |-> s1, result |-> FALSE, over |-> FALSE]

\* should_throttle throttling already at the limit (">=" for ">")
should_throttle_at_limit(st, domain, t) ==
    LET s1 == _cleanup_old_requests(st, t)
    IN  IF Len(s1.request_timestamps) >= limit_for(domain)
        THEN [state |-> _apply_progressive_throttling(s1, t),
              result |-> TRUE, over |-> TRUE]
        ELSE IF in_penalty_window(s1, t)
        THEN [state |-> s1, result |-> TRUE, over |-> FALSE]
        ELSE [state |-> s1, result |-> FALSE, over |-> FALSE]

\* should_throttle: the state it leaves, its return value, and whether the
\* over-limit branch was the one taken
should_throttle(st, domain, t) ==
    LET s1 == _cleanup_old_requests(st, t)
    IN  IF Len(s1.request_timestamps) > limit_for(domain)
        THEN [state |-> _apply_progressive_throttling(s1, t),
              result |-> TRUE, over |-> TRUE]
        ELSE IF in_penalty_window(s1, t)
        THEN [state |-> s1, result |-> TRUE, over |-> FALSE]
        ELSE [state |-> s1, result |-> FALSE, over |-> FALSE]

get_throttle_delay(st) == st.delay_seconds

(***************************************************************************)
(* Inputs of the cache operations.                                         *)
(***************************************************************************)
HeaderDicts == {"h_text", "h_json"}
StatusCodes == {200, 502}

Response(data, headers, status_code, ttl_seconds) ==
    [data |-> data, headers |-> headers, status_code |-> status_code,
     ttl_seconds |-> ttl_seconds]

NoRequest == Response(<<>>, "none", 0, 0)

\* responses stored under the cache specification: one body, two lifetimes
CacheResponses == {Response(<<0>>, "h_text", 200, t) : t \in {0, 1}}

\* responses stored under the round-trip specification: every body, header
\* dictionary and status
RoundTripResponses ==
    {Response(b, "h_text", 200, 1) : b \in Bodies}
    \cup {Response(b, "h_json", 502, 1) : b \in Bodies}

\* responses stored under the size specification: bodies of one byte, of
\* max_response_size bytes and of one byte more
SizeResponses ==
    {Response(Rep(0, n), "h_text", 200, 1) :
         n \in {1, max_response_size, max_response_size + 1}}

NoLast ==
    [op |-> "none", key |-> 0, outcome |-> "none", resp |-> NoResp,
     evicted |-> {}]

(***************************************************************************)
(* Initial state: a fresh database, no request served yet.                 *)
(***************************************************************************)
TzOffsets == {-1, 0, 1}

InitEnv ==
    /\ now = StartTime
    /\ ticks = 0
    /\ tz \in TzOffsets
    /\ has_ttl_manager \in BOOLEAN
    /\ require_secure_key \in BOOLEAN

InitCache ==
    /\ entries = <<>>
    /\ stats = ZeroStats
    /\ opseq = 0
    /\ touch = [k \in Keys |-> 0]
    /\ stored = [k \in Keys |-> NoRequest]
    /\ last = NoLast

(***************************************************************************)
(* Actions of the cache specifications.                                    *)
(***************************************************************************)
\* the clock advances by d seconds
Tick(d) ==
    /\ ticks < MaxTicks
    /\ now' = now + d
    /\ ticks' = ticks + 1
    /\ UNCHANGED <<tz, has_ttl_manager, require_secure_key, backgroundVars>>
    /\ UNCHANGED <<cacheVars, throttleVars, pipeVars>>

\* a caller runs cache_engine.set(k, r, domain_key=dk)
CacheSet(k, r, dk) ==
    /\ stats.sets < MaxSets
    /\ LET res == set(entries, stats, k, r, dk, now)
           ok == res.outcome = "stored"
           gone == IF ok THEN (DOMAIN entries \cup {k}) \ DOMAIN res.entries
                   ELSE {}
       IN  /\ entries' = res.entries
           /\ stats' = res.stats
           /\ opseq' = IF ok THEN opseq + 1 ELSE opseq
           /\ touch' = IF ok THEN [touch EXCEPT ![k] = opseq + 1] ELSE touch
           /\ stored' = IF ok THEN [stored EXCEPT ![k] = r] ELSE stored
           /\ last' = [op |-> "set", key |-> k, outcome |-> res.outcome,
                       resp |-> [NoResp EXCEPT !.data = r.data],
                       evicted |-> {<<e, IF e = k THEN now
                                         ELSE entries[e].last_accessed>> :
                                        e \in gone}]
    /\ UNCHANGED <<envVars, require_secure_key, backgroundVars, throttleVars, pipeVars>>

\* a caller runs cache_engine.get(k)
CacheGet(k) ==
    /\ stats.hits + stats.misses + stats.expired < MaxGets
    /\ LET res == get(entries, stats, k, now)
           hit == res.outcome = "hit"
       IN  /\ entries' = res.entries
           /\ stats' = res.stats
           /\ opseq' = IF hit THEN opseq + 1 ELSE opseq
           /\ touch' = IF hit THEN [touch EXCEPT ![k] = opseq + 1] ELSE touch
           /\ stored' = stored
           /\ last' = [op |-> "get", key |-> k, outcome |-> res.outcome,
                       resp |-> res.resp, evicted |-> {}]
    /\ UNCHANGED <<envVars, require_secure_key, backgroundVars, throttleVars, pipeVars>>

(***************************************************************************)
(* Actions of the throttle specification.                                  *)
(***************************************************************************)
IsRecord(e) == e.ev = "record"
IsDecision(e) == e.ev \in {"throttle", "pass"}
IsReset(e) == e.ev = "reset"

InitThrottle ==
    /\ states = [d \in MappedDomains |-> NewThrottleState]
    /\ hist = [d \in MappedDomains |-> <<>>]

CountRecords(seq) == Cardinality({i \in 1 .. Len(seq) : IsRecord(seq[i])})
CountDecisions(seq) == Cardinality({i \in 1 .. Len(seq) : IsDecision(seq[i])})

RECURSIVE SumOver(_, _)
SumOver(f, ds) ==
    IF ds = {} THEN 0
    ELSE LET d == CHOOSE x \in ds : TRUE IN f[d] + SumOver(f, ds \ {d})

\* calls made so far on all domains
RecordCalls ==
    SumOver([d \in MappedDomains |-> CountRecords(hist[d])], MappedDomains)
DecisionCalls ==
    SumOver([d \in MappedDomains |-> CountDecisions(hist[d])], MappedDomains)


\* a caller runs throttle_manager.record_request(d)
ThrottleRecord(d) ==
    /\ RecordCalls < MaxRecords
    /\ states' = [states EXCEPT ![d] = record_request(@, now)]
    /\ hist' = [hist EXCEPT ![d] =
                   Append(@, [ev |-> "record", at |-> now, over |-> FALSE,
                              delay |-> states[d].delay_seconds])]
    /\ UNCHANGED <<envVars, require_secure_key, backgroundVars, cacheVars, pipeVars>>

\* a caller runs throttle_manager.should_throttle(d)
ThrottleDecide(d) ==
    /\ DecisionCalls < MaxDecisions
    /\ LET res == should_throttle(states[d], d, now)
       IN  /\ states' = [states EXCEPT ![d] = res.state]
           /\ hist' = [hist EXCEPT ![d] =
                          Append(@, [ev |-> IF res.result THEN "throttle"
                                            ELSE "pass",
                                     at |-> now, over |-> res.over,
                                     delay |-> res.state.delay_seconds])]
    /\ UNCHANGED <<envVars, require_secure_key, backgroundVars, cacheVars, pipeVars>>

CountResets(seq) == Cardinality({i \in 1 .. Len(seq) : IsReset(seq[i])})

ResetCalls ==
    SumOver([d \in MappedDomains |-> CountResets(hist[d])], MappedDomains)

\* an administrator runs throttle_manager.reset_throttle(d)
ThrottleReset(d) ==
    /\ ResetCalls < MaxResets
    /\ states' = reset_throttle(states, d)
    /\ hist' = [hist EXCEPT ![d] =
                   Append(@, [ev |-> "reset", at |-> now, over |-> FALSE,
                              delay |-> 1])]
    /\ UNCHANGED <<envVars, require_secure_key, backgroundVars, cacheVars, pipeVars>>

\* the clock advances between calls on the throttle manager
PenaltyTick(d) ==
    /\ ticks < MaxPenaltyTicks
    /\ now' = now + d
    /\ ticks' = ticks + 1
    /\ UNCHANGED <<tz, has_ttl_manager, require_secure_key, backgroundVars>>
    /\ UNCHANGED <<cacheVars, throttleVars, pipeVars>>

(***************************************************************************)
(* The request pipeline: RequestProcessingMixin._handle_request, one step  *)
(* of the handler per action.                                              *)
(***************************************************************************)
Workers == {1}

Methods == {"GET", "PUT"}
CachedMethods == {"GET", "POST"}
\* first path segment of the request: a mapped domain or the unmapped "u"
RequestDomains == {"x", "z", "u"}
Rests == {"a"}
ScenarioRests == {"a", "b"}
\* the secret the client sent: the configured one or, where a secret is
\* required, none
ClientKeys == IF require_secure_key THEN {"none", "good"} ELSE {"good"}
\* the secret a client may send: none, the configured one, another one
SuppliedKeys == {"none", "good", "bad"}
UpstreamOutcomes == {"ok", "http_error", "network_error"}

\* domain_mappings[d].get("upstream", "")
upstream(d) == IF d = "z" THEN "" ELSE "https://upstream"

\* where a client puts the secret, and how it writes the target
Vias == {"header", "path", "query"}
Targets == {"relative", "absolute"}

\* self.path of a request: /{secret}/{domain}/{rest}?key={secret} for a
\* relative target, http://{domain}/{rest} for an absolute one
self_path(r) ==
    [scheme |-> IF r.target = "absolute" THEN "http:" ELSE "",
     prefix |-> IF r.via = "path" /\ r.key # "none" THEN r.key ELSE "",
     domain |-> r.domain,
     rest |-> r.rest,
     query |-> IF r.via = "query" /\ r.key # "none" THEN r.key ELSE ""]

\* generate_cache_key: a digest of the method and the normalised URL
generate_cache_key(method, url) == <<method, url>>

\* SecurityManager.extract_secure_key: the key and the sanitized path.  A
\* first path segment of 32 to 44 characters is taken for a key (every secret
\* of the model is that long, no domain name is); the query value comes from
\* parse_qs and is a list
NoKey == [kind |-> "none", value |-> "none"]

extract_secure_key(r) ==
    LET path == self_path(r) IN
    IF path.scheme = "" /\ path.prefix # ""
    THEN [key |-> [kind |-> "str", value |-> path.prefix],
          sanitized_path |-> [path EXCEPT !.prefix = ""]]
    ELSE IF path.query # ""
    THEN [key |-> [kind |-> "list", value |-> path.query],
          sanitized_path |-> path]
    ELSE IF r.via = "header" /\ r.key # "none"
    THEN [key |-> [kind |-> "str", value |-> r.key], sanitized_path |-> path]
    ELSE [key |-> NoKey, sanitized_path |-> path]

\* SecurityManager.validate_request: "true", "false", or "raises" when the
\* provided key has no encode method
validate_request(provided_key) ==
    IF ~require_secure_key THEN "true"
    ELSE IF provided_key.kind = "none" THEN "false"
    ELSE IF provided_key.kind = "list" THEN "raises"
    ELSE IF provided_key.value = "good" THEN "true" ELSE "false"

\* the loop over domain_mappings: by netloc for an absolute target, by the
\* first segment of self.path for a relative one
matched(r) ==
    LET path == self_path(r) IN
    IF path.scheme # "" THEN path.domain \in MappedDomains
    ELSE path.prefix = "" /\ path.domain \in MappedDomains

\* target_url.lstrip("/").split("/")[0] in _forward_request
first_segment(url) ==
    IF url.scheme # "" THEN url.scheme
    ELSE IF url.prefix # "" THEN url.prefix
    ELSE url.domain

\* the configured secret is part of self.path, of the request headers
PathHasSecret(r) == r.key = "good" /\ r.via \in {"path", "query"}
HeadersHaveSecret(r) == r.key = "good" /\ r.via = "header"

Message(level, site, secret) ==
    [level |-> level, site |-> site, secret |-> secret]

\* the log calls made on the way to a step of the pipeline
Messages(r, step) ==
    IF step = "unauthorized"
    THEN <<Message("warning", "Unauthorized request", FALSE)>>
    ELSE IF step = "lookup_hit"
    THEN <<Message("info", "Cache hit for key: {cache_key} {target_url}",
                   PathHasSecret(r))>>
    ELSE IF step = "lookup_miss"
    THEN <<Message("info", "Cache miss for key: {cache_key}", FALSE)>>
    ELSE IF step = "respond_429"
    THEN <<Message("info", "Throttling upstream request for domain", FALSE)>>
    ELSE IF step = "unmatched"
    THEN <<Message("debug", "Proxying request for path: {self.path}",
                   PathHasSecret(r))>>
    ELSE IF step = "forward_local"
    THEN <<Message("warning", "Domain not mapped: {domain_key}",
                   r.key = "good" /\ first_segment(self_path(r)) = r.key)>>
    ELSE IF step = "forward_call"
    THEN <<Message("debug", "Forwarding {method} request from {target_url}",
                   PathHasSecret(r)),
           Message("debug", "Request headers: {req.headers}",
                   HeadersHaveSecret(r))>>
    ELSE IF step \in {"store_raised", "exception", "escaped"}
    THEN <<Message("error", "Exception while handling request: {e}", FALSE)>>
    ELSE <<>>

\* body the upstream returns for a path
UpstreamBody(rest) == <<0>>

\* body of an error message written by the proxy
ErrorBody == <<2>>

NoHeader == -1

NoRequestYet == [method |-> "none", domain |-> "none", rest |-> "none",
                 key |-> "none", via |-> "header", target |-> "relative",
                 snap |-> NewThrottleState]

NoForward == [data |-> <<>>, status_code |-> 0, headers |-> "none",
              called |-> FALSE, ok |-> FALSE]

NoHdr == [delay |-> NoHeader, remaining |-> NoHeader, reset |-> NoHeader]

ClientResponse(status_code, headers, data, retry_after, source) ==
    [status_code |-> status_code, headers |-> headers, data |-> data,
     retry_after |-> retry_after, source |-> source]

NoDone == [req |-> NoRequestYet, trace |-> <<>>, fwd |-> NoForward,
           resp |-> ClientResponse(0, "none", <<>>, NoHeader, "none"),
           post |-> NewThrottleState]

InitPipeline ==
    /\ pc = [w \in Workers |-> "idle"]
    /\ req = [w \in Workers |-> NoRequestYet]
    /\ trace = [w \in Workers |-> <<>>]
    /\ fwd = [w \in Workers |-> NoForward]
    /\ hdr = [w \in Workers |-> NoHdr]
    /\ served = <<>>
    /\ done = NoDone
    /\ upstream_calls = 0
    /\ log = <<>>

\* the handler returns after writing response r
Finish(w, step, r, f) ==
    /\ pc' = [pc EXCEPT ![w] = "idle"]
    /\ trace' = [trace EXCEPT ![w] = Append(@, step)]
    /\ log' = log \o Messages(req[w], step)
    /\ served' = Append(served, [status_code |-> r.status_code,
                                 retry_after |-> r.retry_after,
                                 source |-> r.source,
                                 rest |-> req[w].rest])
    /\ done' = [req |-> req[w], trace |-> Append(trace[w], step),
                fwd |-> f, resp |-> r,
                post |-> IF req[w].domain \in MappedDomains
                         THEN states'[req[w].domain] ELSE NewThrottleState]

Goto(w, step, next) ==
    /\ pc' = [pc EXCEPT ![w] = next]
    /\ trace' = [trace EXCEPT ![w] = Append(@, step)]
    /\ log' = log \o Messages(req[w], step)
    /\ UNCHANGED <<served, done>>

\* a request arrives while no handler is running; _handle_request logs its
\* path first of all
BeginVia(w, method, domain, rest, key, via, target, budget) ==
    /\ server = "running"
    /\ \A v \in Workers : pc[v] = "idle"
    /\ Len(served) < budget
    /\ pc' = [pc EXCEPT ![w] = "security"]
    /\ req' = [req EXCEPT ![w] =
                  [method |-> method, domain |-> domain, rest |-> rest,
                   key |-> key, via |-> via, target |-> target,
                   snap |-> IF domain \in MappedDomains THEN states[domain]
                            ELSE NewThrottleState]]
    /\ log' = <<Message("debug", "Handling {method} request for path: {self.path}",
                        PathHasSecret(req'[w]))>>
    /\ trace' = [trace EXCEPT ![w] = <<>>]
    /\ fwd' = [fwd EXCEPT ![w] = NoForward]
    /\ hdr' = [hdr EXCEPT ![w] = NoHdr]
    /\ UNCHANGED <<served, done, upstream_calls>>
    /\ UNCHANGED <<envVars, require_secure_key, backgroundVars, cacheVars, throttleVars>>

\* a request with a relative target and the secret, if any, in a header
Begin(w, method, domain, rest, key, budget) ==
    BeginVia(w, method, domain, rest, key, "header", "relative", budget)

\* 1. extract and validate the secure key
Security(w) ==
    /\ pc[w] = "security"
    /\ UNCHANGED <<envVars, require_secure_key, backgroundVars, cacheVars, throttleVars>>
    /\ LET key == extract_secure_key(req[w]).key
       IN  IF require_secure_key /\ key.kind = "none"
           THEN Finish(w, "unauthorized",
                       ClientResponse(401, "none", <<>>, NoHeader, "proxy"),
                       fwd[w])
           ELSE IF require_secure_key /\ validate_request(key) = "raises"
           THEN Finish(w, "exception",
                       ClientResponse(500, "none", ErrorBody, NoHeader,
                                      "proxy"),
                       fwd[w])
           ELSE IF require_secure_key /\ validate_request(key) = "false"
           THEN Finish(w, "unauthorized",
                       ClientResponse(401, "none", <<>>, NoHeader, "proxy"),
                       fwd[w])
           ELSE Goto(w, "security", "route")
    /\ UNCHANGED <<req, fwd, hdr, upstream_calls>>

\* routing that sends the methods that are not cached straight upstream
Route_unthrottled(w) ==
    /\ pc[w] = "route"
    /\ IF matched(req[w])
       THEN IF req[w].method \in CachedMethods
            THEN Goto(w, "route", "lookup")
            ELSE Goto(w, "route", "forward")
       ELSE Goto(w, "unmatched", "transparent")
    /\ UNCHANGED <<req, fwd, hdr, upstream_calls>>
    /\ UNCHANGED <<envVars, require_secure_key, backgroundVars, cacheVars, throttleVars>>

\* 4. match the request against the domain mappings
Route(w) ==
    /\ pc[w] = "route"
    /\ IF matched(req[w])
       THEN IF req[w].method \in CachedMethods
            THEN Goto(w, "route", "lookup")
            ELSE Goto(w, "route", "record")
       ELSE Goto(w, "unmatched", "transparent")
    /\ UNCHANGED <<req, fwd, hdr, upstream_calls>>
    /\ UNCHANGED <<envVars, require_secure_key, backgroundVars, cacheVars, throttleVars>>

\* a lookup that counts the request against the domain before answering it
Lookup_counted(w) ==
    /\ pc[w] = "lookup"
    /\ UNCHANGED <<envVars, require_secure_key, backgroundVars, hist>>
    /\ states' = [states EXCEPT ![req[w].domain] = record_request(@, now)]
    /\ LET k == generate_cache_key(req[w].method, self_path(req[w]))
           res == get(entries, stats, k, now)
       IN  /\ entries' = res.entries
           /\ stats' = res.stats
           /\ IF res.outcome = "hit"
              THEN Finish(w, "lookup_hit",
                          ClientResponse(res.resp.status_code, res.resp.headers,
                                         res.resp.data, NoHeader, "cache"),
                          fwd[w])
              ELSE Goto(w, "lookup_miss", "record")
    /\ UNCHANGED <<req, fwd, hdr, upstream_calls, cacheHist>>

\* 5. cache lookup before any throttling
Lookup(w) ==
    /\ pc[w] = "lookup"
    /\ UNCHANGED <<envVars, require_secure_key, backgroundVars, throttleVars>>
    /\ LET k == generate_cache_key(req[w].method, self_path(req[w]))
           res == get(entries, stats, k, now)
       IN  /\ entries' = res.entries
           /\ stats' = res.stats
           /\ IF res.outcome = "hit"
              THEN Finish(w, "lookup_hit",
                          ClientResponse(res.resp.status_code, res.resp.headers,
                                         res.resp.data, NoHeader, "cache"),
                          fwd[w])
              ELSE Goto(w, "lookup_miss", "record")
    /\ UNCHANGED <<req, fwd, hdr, upstream_calls, cacheHist>>

\* throttle_manager.record_request(domain)
Record(w) ==
    /\ pc[w] = "record"
    /\ states' = [states EXCEPT ![req[w].domain] = record_request(@, now)]
    /\ Goto(w, "record", "decide")
    /\ UNCHANGED <<req, fwd, hdr, upstream_calls, hist>>
    /\ UNCHANGED <<envVars, require_secure_key, backgroundVars, cacheVars>>

\* throttle_manager.should_throttle(domain)
Decide(w) ==
    /\ pc[w] = "decide"
    /\ LET res == should_throttle(states[req[w].domain], req[w].domain, now)
       IN  /\ states' = [states EXCEPT ![req[w].domain] = res.state]
           /\ IF res.result
              THEN Goto(w, "throttled", "get_delay")
              ELSE Goto(w, "not_throttled", "forward")
    /\ UNCHANGED <<req, fwd, hdr, upstream_calls, hist>>
    /\ UNCHANGED <<envVars, require_secure_key, backgroundVars, cacheVars>>

\* delay = throttle_manager.get_throttle_delay(domain)
GetDelay(w) ==
    /\ pc[w] = "get_delay"
    /\ hdr' = [hdr EXCEPT ![w].delay = get_throttle_delay(states[req[w].domain])]
    /\ Goto(w, "get_delay", "get_state")
    /\ UNCHANGED <<req, fwd, upstream_calls>>
    /\ UNCHANGED <<envVars, require_secure_key, backgroundVars, cacheVars, throttleVars>>

\* state = throttle_manager.get_state(domain), then the 429 is written
GetState(w) ==
    /\ pc[w] = "get_state"
    /\ UNCHANGED <<envVars, require_secure_key, backgroundVars, cacheVars, throttleVars>>
    /\ LET st == states[req[w].domain]
           limit == limit_for(req[w].domain)
           n == Len(st.request_timestamps)
           remaining == IF limit - n > 0 THEN limit - n ELSE 0
           reset == IF n > 0
                    THEN time_window - (now - st.request_timestamps[1])
                    ELSE 1
       IN  /\ hdr' = [hdr EXCEPT ![w].remaining = remaining, ![w].reset = reset]
           /\ Finish(w, "respond_429",
                     ClientResponse(429, "none", <<>>, hdr[w].delay, "proxy"),
                     fwd[w])
    /\ UNCHANGED <<req, fwd, upstream_calls>>

\* what _forward_request returns for a target
ForwardResult(url, outcome) ==
    LET domain == first_segment(url)
        rest == url.rest
    IN
    IF domain \notin MappedDomains
    THEN [data |-> ErrorBody, status_code |-> 404, headers |-> "h_text",
          called |-> FALSE, ok |-> FALSE]
    ELSE IF upstream(domain) = ""
    THEN [data |-> ErrorBody, status_code |-> 502, headers |-> "h_text",
          called |-> FALSE, ok |-> FALSE]
    ELSE IF outcome = "ok"
    THEN [data |-> UpstreamBody(rest), status_code |-> 200,
          headers |-> "h_json", called |-> TRUE, ok |-> TRUE]
    ELSE [data |-> ErrorBody, status_code |-> 502, headers |-> "h_text",
          called |-> TRUE, ok |-> FALSE]

\* response_data, status_code, headers = self._forward_request(...)
Forward(w, outcome) ==
    /\ pc[w] = "forward"
    /\ LET f == ForwardResult(self_path(req[w]), outcome)
       IN  /\ fwd' = [fwd EXCEPT ![w] = f]
           /\ upstream_calls' = IF f.called THEN upstream_calls + 1
                                ELSE upstream_calls
           /\ Goto(w, IF f.called THEN "forward_call" ELSE "forward_local",
                   IF req[w].method \in CachedMethods THEN "store"
                   ELSE "respond")
    /\ UNCHANGED <<req, hdr>>
    /\ UNCHANGED <<envVars, require_secure_key, backgroundVars, cacheVars, throttleVars>>

\* cache_engine.set(cache_key, resp_obj, domain_key=matched_domain_key); an
\* exception raised by it reaches the handler's except clause, which writes 500
Store(w) ==
    /\ pc[w] = "store"
    /\ UNCHANGED <<envVars, require_secure_key, backgroundVars, throttleVars>>
    /\ LET k == generate_cache_key(req[w].method, self_path(req[w]))
           r == Response(fwd[w].data, fwd[w].headers, fwd[w].status_code, NoTtl)
           res == set(entries, stats, k, r, req[w].domain, now)
       IN  /\ entries' = res.entries
           /\ stats' = res.stats
           /\ IF res.outcome = "raised"
              THEN Finish(w, "store_raised",
                          ClientResponse(500, "none", ErrorBody, NoHeader,
                                         "proxy"),
                          fwd[w])
              ELSE Goto(w, IF res.outcome = "stored" THEN "store_ok"
                           ELSE "store_rejected", "respond")
    /\ UNCHANGED <<req, fwd, hdr, upstream_calls, cacheHist>>

\* the forwarded response is written to the client
Respond(w) ==
    /\ pc[w] = "respond"
    /\ UNCHANGED <<envVars, require_secure_key, backgroundVars, cacheVars, throttleVars>>
    /\ Finish(w, "respond",
              ClientResponse(fwd[w].status_code, fwd[w].headers, fwd[w].data,
                             NoHeader, "upstream"),
              fwd[w])
    /\ UNCHANGED <<req, fwd, hdr, upstream_calls>>

\* the client has gone when the forwarded response is written: wfile.write
\* raises inside the try block, the except clause logs the exception and
\* writes a 500 to the same client, that write raises too, and nothing
\* catches it
RespondDisconnected(w) ==
    /\ pc[w] = "respond"
    /\ UNCHANGED <<envVars, require_secure_key, backgroundVars, cacheVars, throttleVars>>
    /\ Finish(w, "escaped",
              ClientResponse(0, "none", <<>>, NoHeader, "none"), fwd[w])
    /\ UNCHANGED <<req, fwd, hdr, upstream_calls>>

\* 5'. an unmatched request is handed to _forward_request as it is
Transparent(w) ==
    /\ pc[w] = "transparent"
    /\ UNCHANGED <<envVars, require_secure_key, backgroundVars, cacheVars, throttleVars>>
    /\ LET f == ForwardResult(self_path(req[w]), "ok")
       IN  /\ fwd' = [fwd EXCEPT ![w] = f]
           /\ upstream_calls' = IF f.called THEN upstream_calls + 1
                                ELSE upstream_calls
           /\ Finish(w, "forward_local",
                     ClientResponse(f.status_code, f.headers, f.data, NoHeader,
                                    "upstream"),
                     f)
    /\ UNCHANGED <<req, hdr>>

(***************************************************************************)
(* CacheEngine called from several threads.  A step is one SQL statement,  *)
(* each committed by DatabaseManager as it is executed; set and get run    *)
(* theirs inside "with self._lock", delete runs its statement without it.  *)
(***************************************************************************)
Threads == {1, 2}

\* the response every thread stores
ThreadResponse == Response(<<0>>, "h_text", 200, 0)

NoRow == [found |-> FALSE, created_at |-> 0, ttl_seconds |-> 0]

IdleThread ==
    [pc |-> "idle", key |-> 0, count |-> 0, rows |-> <<>>, row |-> NoRow,
     evictions |-> 0, raced |-> FALSE]

NoConcluded == [thread |-> 0, size |-> 0, evictions |-> 0, raced |-> FALSE]

InitThreads ==
    /\ lock = 0
    /\ th = [t \in Threads |-> IdleThread]
    /\ started = [sets |-> 0, gets |-> 0, deletes |-> 0]
    /\ concluded = NoConcluded

\* the rows of "SELECT cache_key ... ORDER BY last_accessed ASC LIMIT n", in
\* the order the for loop of _evict_if_needed walks them
RECURSIVE OldestSeq(_, _)
OldestSeq(E, n) ==
    IF n = 0 \/ DOMAIN E = {} THEN <<>>
    ELSE LET k == CHOOSE x \in OldestRows(E, 1) : TRUE
         IN  <<k>> \o OldestSeq(delete(E, k), n - 1)

ThreadCalls == started.sets + started.gets + started.deletes

InEviction(t) == th[t].pc \in {"evict_count", "evict_select", "evict_delete"}

ThreadFrame ==
    UNCHANGED <<envVars, require_secure_key, cacheHist, throttleVars, pipeVars,
                serverVars, poolVars, serviceVars>>

\* set, up to the lock: the size check, the TTL resolution and the compression
ThreadSetBegin(t, k) ==
    /\ th[t].pc = "idle"
    /\ ThreadCalls < MaxThreadCalls
    /\ set(entries, stats, k, ThreadResponse, NoDomain, now).outcome = "stored"
    /\ th' = [th EXCEPT ![t] = [IdleThread EXCEPT !.pc = "set_lock", !.key = k]]
    /\ started' = [started EXCEPT !.sets = @ + 1]
    /\ UNCHANGED <<entries, stats, lock, concluded>>
    /\ ThreadFrame

\* with self._lock: REPLACE INTO cache_entries ...
ThreadSetReplace(t) ==
    /\ th[t].pc = "set_lock"
    /\ lock = 0
    /\ lock' = t
    /\ entries' = replace_into(entries, th[t].key, ThreadResponse.data,
                               json_dumps(ThreadResponse.headers),
                               ThreadResponse.status_code,
                               resolve_ttl(ThreadResponse.ttl_seconds, NoDomain),
                               now)
    /\ th' = [th EXCEPT ![t].pc = "evict_count"]
    /\ UNCHANGED <<stats, started, concluded>>
    /\ ThreadFrame

\* an eviction loop that lets the table hold one entry more
ThreadEvictCount_lenient(t) ==
    /\ th[t].pc = "evict_count"
    /\ LET count == Cardinality(DOMAIN entries)
       IN  IF count <= max_cache_entries + 1
           THEN th' = [th EXCEPT ![t].pc = "set_finish"]
           ELSE th' = [th EXCEPT ![t].pc = "evict_select", ![t].count = count]
    /\ UNCHANGED <<entries, stats, lock, started, concluded>>
    /\ ThreadFrame

\* _evict_if_needed: SELECT COUNT(*) FROM cache_entries and the loop test
ThreadEvictCount(t) ==
    /\ th[t].pc = "evict_count"
    /\ LET count == Cardinality(DOMAIN entries)
       IN  IF count <= max_cache_entries
           THEN th' = [th EXCEPT ![t].pc = "set_finish"]
           ELSE th' = [th EXCEPT ![t].pc = "evict_select", ![t].count = count]
    /\ UNCHANGED <<entries, stats, lock, started, concluded>>
    /\ ThreadFrame

\* _evict_if_needed: SELECT cache_key ... ORDER BY last_accessed ASC LIMIT ?
ThreadEvictSelect(t) ==
    /\ th[t].pc = "evict_select"
    /\ LET rows == OldestSeq(entries, th[t].count - max_cache_entries)
       IN  th' = [th EXCEPT ![t].rows = rows,
                            ![t].pc = IF rows = <<>> THEN "evict_count"
                                      ELSE "evict_delete"]
    /\ UNCHANGED <<entries, stats, lock, started, concluded>>
    /\ ThreadFrame

\* _evict_if_needed: one turn of "for (cache_key,) in rows"
ThreadEvictDelete(t) ==
    /\ th[t].pc = "evict_delete"
    /\ entries' = delete(entries, Head(th[t].rows))
    /\ stats' = [stats EXCEPT !.evictions = @ + 1]
    /\ th' = [th EXCEPT ![t].rows = Tail(@),
                        ![t].evictions = @ + 1,
                        ![t].pc = IF Tail(th[t].rows) = <<>> THEN "evict_count"
                                  ELSE "evict_delete"]
    /\ UNCHANGED <<lock, started, concluded>>
    /\ ThreadFrame

\* set: the statistics, the end of the with block and "return True"
ThreadSetFinish(t) ==
    /\ th[t].pc = "set_finish"
    /\ stats' = [stats EXCEPT !.sets = @ + 1]
    /\ lock' = 0
    /\ concluded' = [thread |-> t, size |-> Cardinality(DOMAIN entries),
                     evictions |-> th[t].evictions, raced |-> th[t].raced]
    /\ th' = [th EXCEPT ![t] = IdleThread]
    /\ UNCHANGED <<entries, started>>
    /\ ThreadFrame

\* the responses the storing threads choose from: one stored as it is, one
\* stored compressed
StoreResponses ==
    {Response(<<0>>, "h_text", 200, 1),
     Response(Rep(0, compression_threshold + 1), "h_json", 201, 1)}

NoStore ==
    [key |-> 0, resp |-> NoRequest, thread |-> 0, overlapped |-> FALSE,
     replaced |-> NoRequest]

InitStore ==
    store = [resp |-> [t \in Threads |-> NoRequest],
             raced |-> [t \in Threads |-> FALSE], last |-> NoStore]

StoreFrame ==
    UNCHANGED <<envVars, require_secure_key, cacheHist, throttleVars, pipeVars,
                serverVars, poolVars, callVars, adminVars, fnVars, proxyVars,
                gateVars, lockVars>>

\* set(k, r), up to the lock: the size check, the TTL resolution and the
\* compression
StoreBegin(t, k, r) ==
    /\ th[t].pc = "idle"
    /\ started.sets < MaxStores
    /\ set(entries, stats, k, r, NoDomain, now).outcome = "stored"
    /\ th' = [th EXCEPT ![t] = [IdleThread EXCEPT !.pc = "set_lock", !.key = k]]
    /\ store' = [store EXCEPT !.resp[t] = r, !.raced[t] = FALSE]
    /\ started' = [started EXCEPT !.sets = @ + 1]
    /\ UNCHANGED <<entries, stats, lock, concluded>>
    /\ StoreFrame

\* with self._lock: REPLACE INTO cache_entries ... with the thread's response
StoreReplace(t) ==
    /\ th[t].pc = "set_lock"
    /\ lock = 0
    /\ lock' = t
    /\ LET r == store.resp[t]
           compressed == Len(r.data) > compression_threshold
       IN  entries' = replace_into(entries, th[t].key,
                                   IF compressed THEN zlib_compress(r.data)
                                   ELSE r.data,
                                   json_dumps(r.headers), r.status_code,
                                   resolve_ttl(r.ttl_seconds, NoDomain), now)
    /\ store' = [store EXCEPT
                    !.raced = [u \in Threads |->
                                  \/ store.raced[u]
                                  \/ /\ u # t
                                     /\ th[u].pc = "set_lock"
                                     /\ th[u].key = th[t].key],
                    !.last =
                        [key |-> th[t].key, resp |-> store.resp[t],
                         thread |-> t, overlapped |-> store.raced[t],
                         replaced |-> IF store.last.key = th[t].key
                                      THEN store.last.resp ELSE NoRequest]]
    /\ th' = [th EXCEPT ![t].pc = "evict_count"]
    /\ UNCHANGED <<stats, started, concluded>>
    /\ StoreFrame

\* get: with self._lock: SELECT ... WHERE cache_key = ?
ThreadGetSelect(t, k) ==
    /\ th[t].pc = "idle"
    /\ ThreadCalls < MaxThreadCalls
    /\ lock = 0
    /\ lock' = t
    /\ started' = [started EXCEPT !.gets = @ + 1]
    /\ th' = [th EXCEPT ![t].pc = "get_finish", ![t].key = k,
                        ![t].row = IF k \in DOMAIN entries
                                   THEN [found |-> TRUE,
                                         created_at |-> entries[k].created_at,
                                         ttl_seconds |-> entries[k].ttl_seconds]
                                   ELSE NoRow]
    /\ UNCHANGED <<entries, stats, concluded>>
    /\ ThreadFrame

\* get: a miss, the delete of an expired row, or the UPDATE of a hit, which
\* changes no row when the key has been deleted since the SELECT
ThreadGetFinish(t) ==
    /\ th[t].pc = "get_finish"
    /\ LET k == th[t].key
           row == th[t].row
       IN  IF ~row.found
           THEN /\ stats' = [stats EXCEPT !.misses = @ + 1]
                /\ UNCHANGED entries
           ELSE IF is_expired(row, now)
           THEN /\ entries' = delete(entries, k)
                /\ stats' = [stats EXCEPT !.expired = @ + 1]
           ELSE /\ entries' = IF k \in DOMAIN entries
                              THEN [entries EXCEPT ![k].access_count = @ + 1,
                                                   ![k].last_accessed = now]
                              ELSE entries
                /\ stats' = [stats EXCEPT !.hits = @ + 1]
    /\ lock' = 0
    /\ th' = [th EXCEPT ![t] = IdleThread]
    /\ UNCHANGED <<started, concluded>>
    /\ ThreadFrame

\* delete: DELETE FROM cache_entries WHERE cache_key = ?, outside the lock
ThreadDelete(t, k) ==
    /\ th[t].pc = "idle"
    /\ ThreadCalls < MaxThreadCalls
    /\ started' = [started EXCEPT !.deletes = @ + 1]
    /\ entries' = delete(entries, k)
    /\ th' = [u \in Threads |->
                 IF u # t /\ InEviction(u) /\ k \in DOMAIN entries
                 THEN [th[u] EXCEPT !.raced = TRUE] ELSE th[u]]
    /\ UNCHANGED <<stats, lock, concluded>>
    /\ ThreadFrame

(***************************************************************************)
(* DatabaseManager: the connection pool.  get_connection, return_connection*)
(* and close run their whole body inside "with self._lock".                *)
(***************************************************************************)
\* self._max_pool_size
max_pool_size == 5

NoPoolOp == [op |-> "none", conn |-> 0, full |-> FALSE]

\* _initialize_connections: the pool starts with max_pool_size connections
InitPool ==
    /\ pool = [i \in 1 .. max_pool_size |-> i]
    /\ held = {}
    /\ closed_conns = {}
    /\ conns = max_pool_size
    /\ pool_last = NoPoolOp

\* get_connection: the last pooled connection, or a new one
get_connection(P, n) ==
    IF P # <<>>
    THEN [pool |-> SubSeq(P, 1, Len(P) - 1), conn |-> P[Len(P)], conns |-> n]
    ELSE [pool |-> P, conn |-> n + 1, conns |-> n + 1]

\* return_connection that keeps the connection while the pool has at most
\* max_pool_size connections
return_connection_lenient(P, conn) ==
    IF Len(P) <= max_pool_size
    THEN [pool |-> Append(P, conn), closed |-> {}]
    ELSE [pool |-> P, closed |-> {conn}]

\* return_connection: the connection goes back to the pool, or is closed when
\* the pool is full
return_connection(P, conn) ==
    IF Len(P) < max_pool_size
    THEN [pool |-> Append(P, conn), closed |-> {}]
    ELSE [pool |-> P, closed |-> {conn}]

PoolFrame ==
    UNCHANGED <<envVars, require_secure_key, cacheVars, throttleVars, pipeVars,
                threadVars, serverVars, serviceVars>>

\* a thread borrows a connection
PoolGet ==
    /\ pool # <<>> \/ conns < MaxConns
    /\ LET res == get_connection(pool, conns)
       IN  /\ pool' = res.pool
           /\ conns' = res.conns
           /\ held' = held \cup {res.conn}
           /\ pool_last' = [op |-> "get", conn |-> res.conn, full |-> FALSE]
    /\ UNCHANGED closed_conns
    /\ PoolFrame

\* a thread returns a connection it borrowed
PoolReturn(conn) ==
    /\ conn \in held
    /\ LET res == return_connection(pool, conn)
       IN  /\ pool' = res.pool
           /\ closed_conns' = closed_conns \cup res.closed
    /\ held' = held \ {conn}
    /\ pool_last' = [op |-> "return", conn |-> conn,
                     full |-> Len(pool) = max_pool_size]
    /\ UNCHANGED conns
    /\ PoolFrame

\* a thread returns the connection that was borrowed last
PoolReturnLast ==
    /\ pool_last.op = "get"
    /\ PoolReturn(pool_last.conn)

\* DatabaseManager.close: every pooled connection is closed
close(P) == [pool |-> <<>>, closed |-> {P[i] : i \in DOMAIN P}]

PoolClose ==
    /\ pool # <<>>
    /\ pool' = close(pool).pool
    /\ closed_conns' = closed_conns \cup close(pool).closed
    /\ pool_last' = [op |-> "close", conn |-> 0, full |-> FALSE]
    /\ UNCHANGED <<held, conns>>
    /\ PoolFrame

(***************************************************************************)
(* DatabaseManager.execute_query and execute_update: one statement, tried  *)
(* up to retries times.  Durations are in milliseconds.                    *)
(***************************************************************************)
\* retries=10, delay=0.05 in the signatures
default_retries == 10
default_delay == 50

RetryChoices == {0, 1, 2, default_retries}
DelayChoices == {default_delay, 500}
\* random.uniform(0, 0.1): the two ends and the middle
Jitters == {0, 50, 100}

\* what one attempt does: the statement succeeds, or raises an
\* OperationalError whose text contains "locked", an OperationalError whose
\* text does not, or an exception of another class (IntegrityError)
AttemptOutcomes == {"ok", "locked", "operational", "integrity"}

NoCall ==
    [pc |-> "idle", op |-> "none", retries |-> 0, delay |-> 0, attempt |-> 0,
     outs |-> <<>>, sleeps |-> 0, slept |-> 0, result |-> "none", calls |-> 0,
     conn |-> 0, after |-> "none", borrows |-> 0, returns |-> 0]

InitCall == call = NoCall

\* the test of the except clause that also retries after the last attempt
should_retry_always(e, attempt, retries) ==
    e = "locked" /\ attempt < retries

\* "locked" in str(e).lower() and attempt < retries - 1
should_retry(e, attempt, retries) ==
    e = "locked" /\ attempt < retries - 1

\* min(delay * (2**attempt) + random.uniform(0, 0.1), 1.0)
backoff_sleep(delay, attempt, jitter) ==
    Min(delay * Pow2(attempt) + jitter, 1000)

CallFrame ==
    UNCHANGED <<envVars, require_secure_key, cacheVars, throttleVars, pipeVars,
                threadVars, serverVars, adminVars, fnVars, proxyVars,
                storeVars, gateVars, lockVars>>

\* a caller enters execute_query or execute_update
ExecBegin(op, retries, delay) ==
    /\ call.pc \in {"idle", "returned", "raised"}
    /\ call.calls < MaxCalls
    /\ call' = [NoCall EXCEPT !.pc = "loop", !.op = op, !.retries = retries,
                              !.delay = delay, !.calls = call.calls + 1]
    /\ UNCHANGED poolVars
    /\ CallFrame

\* one pass of "for attempt in range(retries)", up to the end of the try or
\* except block: a connection is borrowed and the statement runs; the
\* connection is held until the finally clause
ExecAttempt(e) ==
    /\ call.pc = "loop"
    /\ call.attempt < call.retries
    /\ pool # <<>> \/ conns < MaxConns
    /\ LET got == get_connection(pool, conns)
           retry == should_retry(e, call.attempt, call.retries)
       IN  /\ pool' = got.pool
           /\ conns' = got.conns
           /\ pool_last' = [op |-> "get", conn |-> got.conn, full |-> FALSE]
           /\ call' = [call EXCEPT
                          !.conn = got.conn,
                          !.borrows = @ + 1,
                          !.outs = Append(@, e),
                          !.pc = IF e # "ok" /\ retry THEN "backoff"
                                 ELSE "finally",
                          !.after = IF e = "ok" THEN "returned"
                                    ELSE IF retry THEN "loop" ELSE "raised",
                          !.result = IF e = "ok" THEN "rows"
                                     ELSE IF retry THEN "none" ELSE e]
    /\ UNCHANGED <<held, closed_conns>>
    /\ CallFrame

\* time.sleep(min(backoff, 1.0)); continue
ExecSleep(jitter) ==
    /\ call.pc = "backoff"
    /\ call' = [call EXCEPT
                   !.slept = backoff_sleep(call.delay, call.attempt, jitter),
                   !.sleeps = @ + 1,
                   !.pc = "finally"]
    /\ UNCHANGED poolVars
    /\ CallFrame

\* a finally clause that is skipped when the exception is raised
ExecFinally_unless_raised ==
    /\ call.pc = "finally"
    /\ LET back == IF call.after = "raised"
                   THEN [pool |-> pool, closed |-> {}]
                   ELSE return_connection(pool, call.conn)
       IN  /\ pool' = back.pool
           /\ closed_conns' = closed_conns \cup back.closed
    /\ pool_last' = [op |-> "return", conn |-> call.conn,
                     full |-> Len(pool) = max_pool_size]
    /\ call' = [call EXCEPT
                   !.conn = 0,
                   !.returns = IF call.after = "raised" THEN @ ELSE @ + 1,
                   !.attempt = IF call.after = "loop" THEN @ + 1 ELSE @,
                   !.pc = call.after]
    /\ UNCHANGED <<held, conns>>
    /\ CallFrame

\* finally: self.return_connection(conn), on the way to the return, to the
\* next pass of the loop or out with the exception
ExecFinally ==
    /\ call.pc = "finally"
    /\ LET back == return_connection(pool, call.conn)
       IN  /\ pool' = back.pool
           /\ closed_conns' = closed_conns \cup back.closed
    /\ pool_last' = [op |-> "return", conn |-> call.conn,
                     full |-> Len(pool) = max_pool_size]
    /\ call' = [call EXCEPT
                   !.conn = 0,
                   !.returns = @ + 1,
                   !.attempt = IF call.after = "loop" THEN @ + 1 ELSE @,
                   !.pc = call.after]
    /\ UNCHANGED <<held, conns>>
    /\ CallFrame

\* the loop ends without a return or a raise: "return []" / "return 0"
ExecLoopEnd ==
    /\ call.pc = "loop"
    /\ call.attempt >= call.retries
    /\ call' = [call EXCEPT !.pc = "returned", !.result = "empty"]
    /\ UNCHANGED poolVars
    /\ CallFrame

(***************************************************************************)
(* Admin endpoints: _check_admin_rate_limit and AdminRateLimiter.          *)
(***************************************************************************)
AdminThreads == {1, 2}
AdminIPs == {"ip1", "ip2"}

IdleAdmin == [pc |-> "idle", ip |-> "none", lim |-> 0, now |-> 0]

\* AdminRateLimiter.__init__: self.requests = {}
NoRequests == [ip \in AdminIPs |-> <<>>]

InitAdmin ==
    /\ proxy_limiter = 0
    /\ limiters = <<>>
    /\ adm = [t \in AdminThreads |-> IdleAdmin]
    /\ admin_log = <<>>

\* [t for t in self.requests[client_ip] if t > minute_ago]
RECURSIVE RecentRequests(_, _)
RecentRequests(ts, minute_ago) ==
    IF ts = <<>> THEN <<>>
    ELSE IF ts[1] > minute_ago
         THEN <<ts[1]>> \o RecentRequests(Tail(ts), minute_ago)
         ELSE RecentRequests(Tail(ts), minute_ago)

\* AdminRateLimiter.is_allowed, the part under self.lock: the requests of the
\* limiter afterwards and the value returned
is_allowed(requests, client_ip, limit_per_minute, t) ==
    LET recent == RecentRequests(requests[client_ip], t - 60)
    IN  IF Len(recent) >= limit_per_minute
        THEN [requests |-> [requests EXCEPT ![client_ip] = recent],
              allowed |-> FALSE]
        ELSE [requests |-> [requests EXCEPT ![client_ip] = Append(recent, t)],
              allowed |-> TRUE]

AdminFrame ==
    UNCHANGED <<require_secure_key, cacheVars, throttleVars, pipeVars,
                threadVars, serverVars, poolVars, callVars, fnVars, proxyVars,
                storeVars, gateVars, lockVars>>

\* _handle_admin_request is entered for a request from client_ip
AdminBegin(t, client_ip) ==
    /\ adm[t].pc = "idle"
    /\ Len(admin_log) + Cardinality({u \in AdminThreads : adm[u].pc # "idle"})
           < MaxAdminRequests
    /\ adm' = [adm EXCEPT ![t] = [IdleAdmin EXCEPT !.pc = "hasattr",
                                                  !.ip = client_ip]]
    /\ UNCHANGED <<envVars, proxy_limiter, limiters, admin_log>>
    /\ AdminFrame

\* if not hasattr(self.proxy, "_admin_rate_limiter")
AdminHasattr(t) ==
    /\ adm[t].pc = "hasattr"
    /\ adm' = [adm EXCEPT ![t].pc = IF proxy_limiter = 0 THEN "create"
                                    ELSE "call"]
    /\ UNCHANGED <<envVars, proxy_limiter, limiters, admin_log>>
    /\ AdminFrame

\* self.proxy._admin_rate_limiter = AdminRateLimiter()
AdminCreate(t) ==
    /\ adm[t].pc = "create"
    /\ limiters' = Append(limiters, NoRequests)
    /\ proxy_limiter' = Len(limiters) + 1
    /\ adm' = [adm EXCEPT ![t].pc = "call"]
    /\ UNCHANGED <<envVars, admin_log>>
    /\ AdminFrame

\* self.proxy._admin_rate_limiter.is_allowed(...): the attribute is read and
\* is_allowed reads the clock before it takes the lock
AdminCall(t) ==
    /\ adm[t].pc = "call"
    /\ adm' = [adm EXCEPT ![t].pc = "locked", ![t].lim = proxy_limiter,
                          ![t].now = now]
    /\ UNCHANGED <<envVars, proxy_limiter, limiters, admin_log>>
    /\ AdminFrame

\* the body of "with self.lock", then the answer: 429 RATE_LIMIT_EXCEEDED when
\* is_allowed returned False, the admin handler's answer otherwise
AdminLocked(t) ==
    /\ adm[t].pc = "locked"
    /\ LET res == is_allowed(limiters[adm[t].lim], adm[t].ip,
                             rate_limit_per_minute, adm[t].now)
       IN  /\ limiters' = [limiters EXCEPT ![adm[t].lim] = res.requests]
           /\ admin_log' = Append(admin_log,
                  [ip |-> adm[t].ip, time |-> adm[t].now,
                   allowed |-> res.allowed,
                   status_code |-> IF res.allowed THEN 200 ELSE 429,
                   error_code |-> IF res.allowed THEN "none"
                                  ELSE "RATE_LIMIT_EXCEEDED"])
    /\ adm' = [adm EXCEPT ![t] = IdleAdmin]
    /\ UNCHANGED <<envVars, proxy_limiter>>
    /\ AdminFrame

\* the clock advances while admin requests are handled
AdminTick(d) ==
    /\ ticks < MaxAdminTicks
    /\ now' = now + d
    /\ ticks' = ticks + 1
    /\ UNCHANGED <<tz, has_ttl_manager, adminVars>>
    /\ AdminFrame

(***************************************************************************)
(* SecurityManager.extract_secure_key as a function of its three           *)
(* arguments.  A path is whether it starts with "/" and its segments; a    *)
(* segment is a name whose length SegLen gives.                            *)
(***************************************************************************)
None == "None"

Segments == {"x", "S31", "K32", "K43", "K44", "L45"}

SegLen(seg) ==
    CASE seg = "x" -> 1
      [] seg = "S31" -> 31
      [] seg = "K32" -> 32
      [] seg = "K43" -> 43
      [] seg = "K44" -> 44
      [] seg = "L45" -> 45
      [] OTHER -> 1

\* "/", "/seg", "/seg/a", "/seg/x/a", and "seg/a" without the leading slash
RequestPaths ==
    {[slash |-> TRUE, segs |-> <<>>]}
    \cup {[slash |-> TRUE, segs |-> <<g>>] : g \in Segments}
    \cup {[slash |-> b, segs |-> <<g, "a">>] : b \in BOOLEAN, g \in Segments}
    \cup {[slash |-> TRUE, segs |-> <<g, "x", "a">>] : g \in Segments}

\* query_params.get("key"): absent, empty, a value
QueryKeys == {None, "", "Kq"}
\* headers.get("X-API-Buddy-Key")
HeaderKeys == {None, "", "Kh"}
\* headers.get("Authorization"): absent, or a scheme and what follows it
Authorizations ==
    {[scheme |-> None, token |-> ""]}
    \cup {[scheme |-> c, token |-> t] :
             c \in {"Bearer", "bearer", "Basic"}, t \in {"", "Kb"}}

ExtractInputs ==
    {[fn |-> "extract_secure_key", request_path |-> p,
      headers |-> [x_api_buddy_key |-> h, authorization |-> a],
      query_params |-> [key |-> q]] :
         p \in RequestPaths, h \in HeaderKeys, a \in Authorizations,
         q \in QueryKeys}

\* "if key:" on an Optional[str]
Truthy(v) == v # None /\ v # ""

\* _extract_from_path: (key, sanitized path)
_extract_from_path(request_path) ==
    IF ~request_path.slash
    THEN <<None, request_path>>
    ELSE IF Len(request_path.segs) < 2
    THEN <<None, request_path>>
    ELSE LET key_candidate == request_path.segs[1]
         IN  IF 32 <= SegLen(key_candidate) /\ SegLen(key_candidate) <= 44
             THEN <<key_candidate,
                    [request_path EXCEPT !.segs = Tail(request_path.segs)]>>
             ELSE <<None, request_path>>

\* _extract_from_query
_extract_from_query(request_path, query_params) ==
    IF Truthy(query_params.key) THEN <<query_params.key, request_path>>
    ELSE <<None, request_path>>

\* _extract_from_header
_extract_from_header(request_path, headers) ==
    IF Truthy(headers.x_api_buddy_key)
    THEN <<headers.x_api_buddy_key, request_path>>
    ELSE IF headers.authorization.scheme \in {"Bearer", "bearer"}
    THEN <<headers.authorization.token, request_path>>
    ELSE <<None, request_path>>

\* an extraction that looks at the headers before the query
extract_header_first(request_path, headers, query_params) ==
    LET from_path == _extract_from_path(request_path)
        from_query == _extract_from_query(request_path, query_params)
        from_header == _extract_from_header(request_path, headers)
    IN  IF Truthy(from_path[1]) THEN from_path
        ELSE IF Truthy(from_header[1]) THEN <<from_header[1], request_path>>
        ELSE IF Truthy(from_query[1]) THEN <<from_query[1], request_path>>
        ELSE <<None, request_path>>

\* extract_secure_key(request_path, headers, query_params)
extract_from_request(request_path, headers, query_params) ==
    LET from_path == _extract_from_path(request_path)
        from_query == _extract_from_query(request_path, query_params)
        from_header == _extract_from_header(request_path, headers)
    IN  IF Truthy(from_path[1]) THEN from_path
        ELSE IF Truthy(from_query[1]) THEN <<from_query[1], request_path>>
        ELSE IF Truthy(from_header[1]) THEN <<from_header[1], request_path>>
        ELSE <<None, request_path>>

NoFn == [fn |-> "none"]

InitFn ==
    /\ fn_in = NoFn
    /\ fn_out = NoFn

FnFrame ==
    UNCHANGED <<envVars, require_secure_key, cacheVars, throttleVars, pipeVars,
                threadVars, serverVars, poolVars, callVars, adminVars,
                proxyVars, storeVars, gateVars, lockVars>>

\* a caller runs security_manager.extract_secure_key on the arguments
ApplyExtract ==
    /\ fn_in.fn = "extract_secure_key"
    /\ fn_out = NoFn
    /\ LET res == extract_from_request(fn_in.request_path, fn_in.headers,
                                       fn_in.query_params)
       IN  fn_out' = [fn |-> "extract_secure_key", key |-> res[1],
                      sanitized_path |-> res[2]]
    /\ UNCHANGED fn_in
    /\ FnFrame

(***************************************************************************)
(* CacheEngine.generate_cache_key as a function of method, URL, body and   *)
(* content type.  A URL is what urlparse makes of it: scheme, netloc, the  *)
(* path as segments and the number of slashes after the last one, and the  *)
(* query as the sequence of pairs parse_qsl returns.  A body is its JSON   *)
(* value and the spelling of it (white space, order of the object's keys). *)
(***************************************************************************)
\* str.lower() and str.upper() on the names used here
Lower(str) ==
    CASE str = "HTTP" -> "http"
      [] str = "H" -> "h"
      [] OTHER -> str

Upper(str) ==
    CASE str = "get" -> "GET"
      [] str = "post" -> "POST"
      [] OTHER -> str

\* order of the strings that occur in queries
StrRank(str) ==
    CASE str = "1" -> 1
      [] str = "2" -> 2
      [] str = "a" -> 3
      [] str = "b" -> 4
      [] OTHER -> 0

\* tuple comparison of two (name, value) pairs
PairLess(p, q) ==
    \/ StrRank(p[1]) < StrRank(q[1])
    \/ p[1] = q[1] /\ StrRank(p[2]) < StrRank(q[2])

RECURSIVE InsertPair(_, _)
InsertPair(p, ps) ==
    IF ps = <<>> THEN <<p>>
    ELSE IF PairLess(ps[1], p) THEN <<ps[1]>> \o InsertPair(p, Tail(ps))
    ELSE <<p>> \o ps

\* sorted(parse_qsl(parsed.query))
RECURSIVE sorted(_)
sorted(ps) == IF ps = <<>> THEN <<>> ELSE InsertPair(ps[1], sorted(Tail(ps)))

KeyUrls ==
    {[scheme |-> c, netloc |-> h, segs |-> g[1], slashes |-> g[2],
      query |-> q] :
         c \in {"http", "HTTP"}, h \in {"h", "H"},
         g \in {<<<<>>, 1>>, <<<<"a">>, 0>>, <<<<"a">>, 1>>, <<<<"a">>, 2>>},
         q \in {<<>>, <<<<"a", "1">>, <<"b", "2">>>>,
                <<<<"b", "2">>, <<"a", "1">>>>,
                <<<<"a", "2">>, <<"a", "1">>>>}}

PostUrls == {u \in KeyUrls : u.netloc = "h" /\ u.query = <<>> /\ u.segs # <<>>}

NoBody == [value |-> None, spelling |-> 0, json |-> FALSE]

\* bodies: two spellings of one JSON object, another object, and text that
\* json.loads refuses, in two spellings
KeyBodies ==
    {[value |-> "obj1", spelling |-> 0, json |-> TRUE],
     [value |-> "obj1", spelling |-> 1, json |-> TRUE],
     [value |-> "obj2", spelling |-> 0, json |-> TRUE],
     [value |-> "text", spelling |-> 0, json |-> FALSE],
     [value |-> "text", spelling |-> 1, json |-> FALSE]}

ContentTypes == {"application/json; charset=utf-8", "text/plain"}

KeyRequests ==
    {[method |-> mt, url |-> u, body |-> NoBody, content_type |-> None] :
         mt \in {"GET", "get"}, u \in KeyUrls}
    \cup {[method |-> "POST", url |-> u, body |-> b, content_type |-> ct] :
             u \in PostUrls, b \in KeyBodies, ct \in ContentTypes}

KeyInputs ==
    {[fn |-> "generate_cache_key", a |-> a, b |-> b] :
         a \in KeyRequests, b \in KeyRequests}

\* a normalisation that leaves the trailing slashes of the path in place
_normalize_url_keep_slashes(url) ==
    [url EXCEPT !.scheme = Lower(@), !.netloc = Lower(@),
                !.slashes = IF url.segs = <<>> THEN 1 ELSE @,
                !.query = sorted(@)]

\* _normalize_url: scheme and netloc in lower case, the path without its
\* trailing slashes ("/" when nothing is left), the query pairs sorted
_normalize_url(url) ==
    [url EXCEPT !.scheme = Lower(@), !.netloc = Lower(@),
                !.slashes = IF url.segs = <<>> THEN 1 ELSE 0,
                !.query = sorted(@)]

\* hashlib.sha256(...).hexdigest(): one digest per text
sha256(text) == <<"sha256", text>>

\* _normalize_request_body: the sorted, compact dump of the JSON value when
\* the content type mentions application/json and the body parses, the
\* digest of the bytes otherwise
_normalize_request_body(body, content_type) ==
    IF body = NoBody THEN ""
    ELSE IF content_type = "application/json; charset=utf-8" /\ body.json
    THEN <<"json", body.value>>
    ELSE sha256(<<body.value, body.spelling>>)

\* generate_cache_key(method, url, body, content_type)
cache_key(method, url, body, content_type) ==
    LET normalized_url == _normalize_url(url)
        key_components ==
            IF Upper(method) = "POST" /\ body # NoBody
            THEN <<Upper(method), normalized_url,
                   _normalize_request_body(body, content_type)>>
            ELSE <<Upper(method), normalized_url>>
    IN  sha256(key_components)

\* a caller derives the keys of two requests, the first one twice
ApplyCacheKey ==
    /\ fn_in.fn = "generate_cache_key"
    /\ fn_out = NoFn
    /\ fn_out' = [fn |-> "generate_cache_key",
                  a |-> cache_key(fn_in.a.method, fn_in.a.url, fn_in.a.body,
                                  fn_in.a.content_type),
                  again |-> cache_key(fn_in.a.method, fn_in.a.url,
                                      fn_in.a.body, fn_in.a.content_type),
                  b |-> cache_key(fn_in.b.method, fn_in.b.url, fn_in.b.body,
                                  fn_in.b.content_type)]
    /\ UNCHANGED fn_in
    /\ FnFrame

(***************************************************************************)
(* The throttle section of _handle_request run by several handler threads  *)
(* for cache-missing requests to domain x.  Each call on the throttle      *)
(* manager takes its lock for the length of the call, so a step is one     *)
(* call.                                                                   *)
(***************************************************************************)
GateThreads == {1, 2}

IdleGate ==
    [pc |-> "idle", rec_no |-> 0, rec_at |-> 0, dec_at |-> 0, nrecs |-> 0,
     dec_delay |-> 0, dec_count |-> 0, delay |-> 0]

InitGate ==
    /\ gate = [t \in GateThreads |-> IdleGate]
    /\ gate_log = {}

GateFrame ==
    UNCHANGED <<tz, has_ttl_manager, require_secure_key, cacheVars, hist,
                pipeVars, threadVars, serverVars, poolVars, callVars, adminVars,
                fnVars, proxyVars, storeVars, lockVars>>

\* requests that have entered the throttle section so far
GateRequests ==
    Cardinality(gate_log) + Cardinality({t \in GateThreads : gate[t].pc # "idle"})

\* self.proxy.throttle_manager.record_request(domain)
GateRecord(t) ==
    /\ gate[t].pc = "idle"
    /\ GateRequests < MaxGateRequests
    /\ states' = [states EXCEPT !["x"] = record_request(@, now)]
    /\ gate' = [gate EXCEPT ![t] =
                   [IdleGate EXCEPT !.pc = "decide",
                                    !.rec_no = states'["x"].total_requests,
                                    !.rec_at = now]]
    /\ UNCHANGED <<now, ticks, gate_log>>
    /\ GateFrame

\* if self.proxy.throttle_manager.should_throttle(domain): a request that is
\* not throttled goes on to _forward_request
GateDecide(t) ==
    /\ gate[t].pc = "decide"
    /\ LET res == should_throttle(states["x"], "x", now)
           g == [gate[t] EXCEPT
                    !.dec_at = now,
                    !.nrecs = states["x"].total_requests,
                    !.dec_delay = res.state.delay_seconds,
                    !.dec_count = Len(res.state.request_timestamps)]
       IN  /\ states' = [states EXCEPT !["x"] = res.state]
           /\ IF res.result
              THEN /\ gate' = [gate EXCEPT ![t] = [g EXCEPT !.pc = "get_delay"]]
                   /\ UNCHANGED gate_log
              ELSE /\ gate' = [gate EXCEPT ![t] = IdleGate]
                   /\ gate_log' = gate_log \cup
                          {[outcome |-> "forward", rec_no |-> g.rec_no,
                            rec_at |-> g.rec_at, dec_at |-> g.dec_at,
                            nrecs |-> g.nrecs, dec_delay |-> g.dec_delay,
                            dec_count |-> g.dec_count, retry_after |-> 0,
                            remaining |-> 0, reset |-> 0]}
    /\ UNCHANGED <<now, ticks>>
    /\ GateFrame

\* delay = self.proxy.throttle_manager.get_throttle_delay(domain)
GateGetDelay(t) ==
    /\ gate[t].pc = "get_delay"
    /\ gate' = [gate EXCEPT ![t].delay = get_throttle_delay(states["x"]),
                            ![t].pc = "get_state"]
    /\ UNCHANGED <<now, ticks, states, gate_log>>
    /\ GateFrame

\* state = self.proxy.throttle_manager.get_state(domain), the header values
\* computed from it, and the 429 response
GateGetState(t) ==
    /\ gate[t].pc = "get_state"
    /\ LET st == states["x"]
           limit == limit_for("x")
           n == Len(st.request_timestamps)
           remaining == IF limit - n > 0 THEN limit - n ELSE 0
           reset == IF n > 0
                    THEN time_window - (now - st.request_timestamps[1])
                    ELSE 1
       IN  gate_log' = gate_log \cup
               {[outcome |-> "throttle", rec_no |-> gate[t].rec_no,
                 rec_at |-> gate[t].rec_at, dec_at |-> gate[t].dec_at,
                 nrecs |-> gate[t].nrecs, dec_delay |-> gate[t].dec_delay,
                 dec_count |-> gate[t].dec_count,
                 retry_after |-> gate[t].delay, remaining |-> remaining,
                 reset |-> reset]}
    /\ gate' = [gate EXCEPT ![t] = IdleGate]
    /\ UNCHANGED <<now, ticks, states>>
    /\ GateFrame

\* the clock advances between two calls of the handler threads
GateTick(d) ==
    /\ ticks < MaxGateTicks
    /\ now' = now + d
    /\ ticks' = ticks + 1
    /\ UNCHANGED <<states, gate, gate_log>>
    /\ GateFrame

(***************************************************************************)
(* CachingProxy.start and CachingProxy.stop, from construction on.         *)
(***************************************************************************)
NoStop ==
    [called |-> FALSE, was_running |-> FALSE, server_stopped |-> FALSE,
     pool_closed |-> FALSE, closed |-> 0, on_shutdown |-> FALSE]

\* CachingProxy.__init__: self.server = None, self.running = False
InitProxy ==
    proxy = [running |-> FALSE, server |-> None, starts |-> 0, stops |-> 0,
             server_stops |-> 0, on_shutdown_calls |-> 0, last_stop |-> NoStop,
             last_start |-> "none"]

ProxyFrame ==
    UNCHANGED <<envVars, require_secure_key, cacheVars, throttleVars, pipeVars,
                threadVars, serverVars, callVars, adminVars, fnVars,
                storeVars, gateVars, lockVars>>

\* CachingProxy.start(blocking=False) on a proxy that is not running.  With
\* no server yet, one is created (binding the address) and started.  With a
\* server left by an earlier start, host and port are never assigned:
\* running is set, and the log line that formats them raises
\* UnboundLocalError before self.server.start is reached
ProxyStart ==
    /\ ~proxy.running
    /\ proxy.starts < MaxStarts
    /\ proxy' = IF proxy.server = None
                THEN [proxy EXCEPT !.running = TRUE, !.server = "serving",
                                   !.starts = @ + 1, !.last_start = "returned"]
                ELSE [proxy EXCEPT !.running = TRUE, !.starts = @ + 1,
                                   !.last_start = "UnboundLocalError"]
    /\ UNCHANGED poolVars
    /\ ProxyFrame

\* start() with no server yet, when the address cannot be bound: the
\* ThreadedHTTPServer constructor raises OSError before running is set
ProxyStartBindFails ==
    /\ ~proxy.running
    /\ proxy.server = None
    /\ proxy.starts < MaxStarts
    /\ proxy' = [proxy EXCEPT !.starts = @ + 1, !.last_start = "OSError"]
    /\ UNCHANGED poolVars
    /\ ProxyFrame

\* start() on a running proxy: raise RuntimeError("Server is already running")
ProxyStartRunning ==
    /\ proxy.running
    /\ proxy.starts < MaxStarts
    /\ proxy' = [proxy EXCEPT !.starts = @ + 1, !.last_start = "RuntimeError"]
    /\ UNCHANGED poolVars
    /\ ProxyFrame

\* CachingProxy.stop(): the server, if there is one, is stopped; running is
\* cleared; the database pool is closed; the on_shutdown callback is called
ProxyStop ==
    /\ proxy.stops < MaxStops
    /\ pool' = close(pool).pool
    /\ closed_conns' = closed_conns \cup close(pool).closed
    /\ pool_last' = [op |-> "close", conn |-> 0, full |-> FALSE]
    /\ proxy' = [proxy EXCEPT
                    !.running = FALSE,
                    !.server = IF @ = None THEN None ELSE "stopped",
                    !.stops = @ + 1,
                    !.server_stops = IF proxy.server = None THEN @ ELSE @ + 1,
                    !.on_shutdown_calls = @ + 1,
                    !.last_stop =
                        [called |-> TRUE, was_running |-> proxy.running,
                         server_stopped |-> proxy.server # None,
                         pool_closed |-> TRUE, closed |-> Len(pool),
                         on_shutdown |-> TRUE]]
    /\ UNCHANGED <<held, conns>>
    /\ ProxyFrame

(***************************************************************************)
(* ThreadedHTTPServer and CachingProxy.stop                                *)
(***************************************************************************)
\* ThreadingHTTPServer.daemon_threads, which ThreadedHTTPServer inherits:
\* handler threads are daemon threads and server_close does not join them
daemon_threads == TRUE

InitServer == server = "running"

\* ThreadedHTTPServer.stop: shutdown() ends the accept loop, server_close()
\* closes the socket and joins the handler threads that are not daemon
\* threads, then the serve_forever thread is joined
ServerStop ==
    /\ server = "running"
    /\ daemon_threads \/ \A w \in Workers : pc[w] = "idle"
    /\ server' = "stopped"
    /\ UNCHANGED <<envVars, require_secure_key, cacheVars, throttleVars,
                   pipeVars, threadVars, poolVars, serviceVars>>

\* CachingProxy.stop, after self.server.stop(): self.db_manager.close()
ProxyStopCloseDb ==
    /\ server = "stopped"
    /\ server' = "db_closed"
    /\ pool' = close(pool).pool
    /\ closed_conns' = closed_conns \cup close(pool).closed
    /\ pool_last' = [op |-> "close", conn |-> 0, full |-> FALSE]
    /\ UNCHANGED <<held, conns>>
    /\ UNCHANGED <<envVars, require_secure_key, cacheVars, throttleVars,
                   pipeVars, threadVars, serviceVars>>

(***************************************************************************)
(* _forward_request as a function of target_url: the routing that comes    *)
(* before the network call.  A URL is the sequence of its characters.      *)
(***************************************************************************)
UrlChars == {"/", "x", "z", "u", "a"}

TargetUrls == UNION {[1..n -> UrlChars] : n \in 0..MaxUrlLen}

\* str.lstrip("/")
RECURSIVE lstrip(_)
lstrip(s) == IF s # <<>> /\ Head(s) = "/" THEN lstrip(Tail(s)) ELSE s

\* str.split("/"): the pieces between the slashes; one empty piece for ""
RECURSIVE split(_)
split(s) ==
    IF s = <<>> THEN << <<>> >>
    ELSE IF Head(s) = "/" THEN << <<>> >> \o split(Tail(s))
    ELSE LET r == split(Tail(s)) IN << <<Head(s)>> \o r[1] >> \o Tail(r)

\* domain_key in domain_mappings
InMappings(domain_key) == Len(domain_key) = 1 /\ domain_key[1] \in MappedDomains

\* what _forward_request returns, and whether it called the upstream
_forward_request(target_url, outcome) ==
    LET path_parts == split(lstrip(target_url))
        domain_key == path_parts[1]
    IN
    IF path_parts # <<>>
    THEN IF InMappings(domain_key)
         THEN IF upstream(domain_key[1]) # ""
              THEN IF outcome = "ok"
                   THEN [status |-> 200, msg |-> "", name |-> <<>>,
                         called |-> TRUE]
                   ELSE [status |-> 502, msg |-> "Upstream server error: ",
                         name |-> <<>>, called |-> TRUE]
              ELSE [status |-> 502,
                    msg |-> "No upstream configured for domain: ",
                    name |-> domain_key, called |-> FALSE]
         ELSE [status |-> 404, msg |-> "Domain not mapped: ",
               name |-> domain_key, called |-> FALSE]
    ELSE [status |-> 400, msg |-> "Invalid request path", name |-> <<>>,
          called |-> FALSE]

ForwardInputs ==
    {[fn |-> "_forward_request", target_url |-> u, outcome |-> o] :
         u \in TargetUrls, o \in {"ok", "network_error"}}

\* the handler runs self._forward_request on the target
ApplyForward ==
    /\ fn_in.fn = "_forward_request"
    /\ fn_out = NoFn
    /\ fn_out' = [fn |-> "_forward_request",
                  result |-> _forward_request(fn_in.target_url, fn_in.outcome)]
    /\ UNCHANGED fn_in
    /\ FnFrame

(***************************************************************************)
(* The three mutexes: CacheEngine._lock (engine.py:50), ThrottleManager    *)
(* .lock (throttling/manager.py:38) and DatabaseManager._lock              *)
(* (database/manager.py:83).  Each is a threading.Lock, which is not       *)
(* reentrant: acquire blocks while the lock is held, whoever holds it.     *)
(* An operation is modelled by the lock events of its code, in order.      *)
(***************************************************************************)
LockThreads == {1, 2}

Mutexes == {"cache", "throttle", "pool"}

LockOps ==
    {"get", "set", "delete", "clear", "get_stats", "record_request",
     "should_throttle", "get_connection", "return_connection"}

IdleWork == [pc |-> "idle", op |-> "none", v |-> 0, ip |-> 0, withs |-> <<>>,
             exc |-> "none"]

InitLocks ==
    /\ mutex = [m \in Mutexes |-> 0]
    /\ work = [t \in LockThreads |-> IdleWork]

LockFrame ==
    UNCHANGED <<envVars, require_secure_key, cacheVars, throttleVars, pipeVars,
                threadVars, serverVars, poolVars, callVars, adminVars, fnVars,
                proxyVars, storeVars, gateVars>>

\* `with <lock>:` around a block
with_lock(m, body) ==
    <<[k |-> "acq", m |-> m]>> \o body \o <<[k |-> "rel", m |-> m]>>

\* get_connection: pop a pooled connection or sqlite3.connect, under the lock
get_connection_locks == with_lock("pool", <<[k |-> "connect", m |-> "none"]>>)

\* return_connection: append or close, under the lock
return_connection_locks == with_lock("pool", <<>>)

\* one attempt of execute_query / execute_update: get_connection before the
\* try, the statement inside it, return_connection in the finally clause
execute_locks ==
    get_connection_locks \o <<[k |-> "stmt", m |-> "none"]>>
        \o return_connection_locks \o <<[k |-> "end_finally", m |-> "none"]>>

\* CacheEngine.delete and CacheEngine.clear take no lock of their own
delete_locks == execute_locks

clear_locks == execute_locks

\* a variant of _evict_if_needed that takes the cache mutex itself
evict_if_needed_locked(rounds) ==
    with_lock("cache",
              execute_locks \o (IF rounds = 0 THEN <<>>
                                ELSE execute_locks \o delete_locks
                                         \o execute_locks))

\* _evict_if_needed: COUNT, and per round over the limit SELECT, the delete
\* of the row it names, and COUNT again
evict_if_needed_locks(rounds) ==
    execute_locks \o (IF rounds = 0 THEN <<>>
                      ELSE execute_locks \o delete_locks \o execute_locks)

\* CacheEngine.get: SELECT, then nothing (miss, v = 0), delete (expired,
\* v = 1) or UPDATE (hit, v = 2), all inside `with self._lock`
get_locks(v) ==
    with_lock("cache",
              execute_locks \o (IF v = 0 THEN <<>>
                                ELSE IF v = 1 THEN delete_locks
                                ELSE execute_locks))

\* CacheEngine.set: REPLACE and _evict_if_needed inside `with self._lock`
set_locks(rounds) ==
    with_lock("cache", execute_locks \o evict_if_needed_locks(rounds))

get_stats_locks == with_lock("cache", <<>>)

record_request_locks == with_lock("throttle", <<>>)

should_throttle_locks == with_lock("throttle", <<>>)

\* the branches an operation can take
LockVariants(o) ==
    IF o = "get" THEN {0, 1, 2} ELSE IF o = "set" THEN {0, 1} ELSE {0}

LockCode(o, v) ==
    CASE o = "get" -> get_locks(v)
      [] o = "set" -> set_locks(v)
      [] o = "delete" -> delete_locks
      [] o = "clear" -> clear_locks
      [] o = "get_stats" -> get_stats_locks
      [] o = "record_request" -> record_request_locks
      [] o = "should_throttle" -> should_throttle_locks
      [] o = "get_connection" -> get_connection_locks
      [] o = "return_connection" -> return_connection_locks
      [] OTHER -> <<>>

WorkCode(t) == LockCode(work[t].op, work[t].v)

AtEnd(t) == work[t].ip > Len(WorkCode(t))

\* the lock event thread t is at
Cur(t) ==
    IF work[t].pc = "run" /\ ~AtEnd(t) THEN WorkCode(t)[work[t].ip]
    ELSE [k |-> "none", m |-> "none"]

Holds(t) == {m \in Mutexes : mutex[m] = t}

\* a thread calls one of the operations
LockBegin(t, o, v) ==
    /\ work[t].pc = "idle"
    /\ v \in LockVariants(o)
    /\ work' = [work EXCEPT ![t] =
                   [pc |-> "run", op |-> o, v |-> v, ip |-> 1,
                    withs |-> <<>>, exc |-> "none"]]
    /\ UNCHANGED mutex
    /\ LockFrame

\* threading.Lock.acquire on entering a with block: waits until the lock
\* is free
LockAcquire(t) ==
    /\ Cur(t).k = "acq"
    /\ mutex[Cur(t).m] = 0
    /\ mutex' = [mutex EXCEPT ![Cur(t).m] = t]
    /\ work' = [work EXCEPT ![t].ip = @ + 1,
                            ![t].withs = Append(@, Cur(t).m)]
    /\ LockFrame

\* leaving a with block at its end (or by return)
LockRelease(t) ==
    /\ Cur(t).k = "rel"
    /\ mutex' = [mutex EXCEPT ![Cur(t).m] = 0]
    /\ work' = [work EXCEPT ![t].ip = @ + 1,
                            ![t].withs = SubSeq(@, 1, Len(@) - 1)]
    /\ LockFrame

\* get_connection's body; sqlite3.connect may raise inside the with block
LockConnect(t, ok) ==
    /\ Cur(t).k = "connect"
    /\ work' = [work EXCEPT ![t] =
                   IF ok THEN [@ EXCEPT !.ip = @ + 1]
                   ELSE [@ EXCEPT !.pc = "unwind", !.exc = "connect"]]
    /\ UNCHANGED mutex
    /\ LockFrame

\* the statement inside the try; on an exception the finally clause (the
\* next events) still runs
LockStatement(t, ok) ==
    /\ Cur(t).k = "stmt"
    /\ work' = [work EXCEPT ![t].ip = @ + 1,
                            ![t].exc = IF ok THEN "none" ELSE "stmt"]
    /\ UNCHANGED mutex
    /\ LockFrame

\* the end of the finally clause: a pending exception goes on to the caller
LockEndFinally(t) ==
    /\ Cur(t).k = "end_finally"
    /\ work' = [work EXCEPT ![t] =
                   IF @.exc = "none" THEN [@ EXCEPT !.ip = @ + 1]
                   ELSE [@ EXCEPT !.pc = "unwind"]]
    /\ UNCHANGED mutex
    /\ LockFrame

\* an exception leaves the innermost with block it is in: __exit__ releases
LockUnwind(t) ==
    /\ work[t].pc = "unwind"
    /\ work[t].withs # <<>>
    /\ LET m == work[t].withs[Len(work[t].withs)]
       IN  /\ mutex' = [mutex EXCEPT ![m] = 0]
           /\ work' = [work EXCEPT ![t].withs = SubSeq(@, 1, Len(@) - 1)]
    /\ LockFrame

\* the operation returns or raises to its caller
LockEnd(t) ==
    /\ \/ work[t].pc = "run" /\ AtEnd(t)
       \/ work[t].pc = "unwind" /\ work[t].withs = <<>>
    /\ work' = [work EXCEPT ![t] =
                   [IdleWork EXCEPT !.op = work[t].op, !.exc = work[t].exc]]
    /\ UNCHANGED mutex
    /\ LockFrame

(***************************************************************************)
(* Specifications.                                                         *)
(***************************************************************************)
InitComponents ==
    /\ InitEnv /\ InitCache /\ InitThrottle /\ InitPipeline /\ InitThreads
    /\ InitServer /\ InitPool /\ InitCall /\ InitAdmin /\ InitProxy
    /\ InitStore /\ InitGate /\ InitLocks

Init == InitComponents /\ InitFn

\* the engine on its own takes no part in security, and its callers give
\* every response a TTL
InitCacheOnly == Init /\ ~require_secure_key /\ has_ttl_manager

\* the pipeline in a process whose local time is UTC
InitPipeline0 == Init /\ tz = 0

\* the throttle manager on its own reads neither the time zone nor the TTLs
InitThrottleOnly == InitCacheOnly /\ tz = 0

\* the cache engine used directly: stores, lookups and deletes of a few keys
NextCache ==
    \/ \E k \in Keys, r \in CacheResponses : CacheSet(k, r, NoDomain)
    \/ \E k \in Keys : CacheGet(k)
    \/ Tick(1)

SpecCache == InitCacheOnly /\ [][NextCache]_vars

\* one key, every response: what a lookup returns after a store
NextRoundTrip ==
    \/ \E r \in RoundTripResponses : CacheSet(1, r, NoDomain)
    \/ CacheGet(1)
    \/ Tick(1)

SpecRoundTrip == InitCacheOnly /\ [][NextRoundTrip]_vars

\* stores of one short-lived response under two keys, lookups, and a clock
ExpiryKeys == {1, 2}

NextExpiry ==
    \/ \E k \in ExpiryKeys :
           CacheSet(k, Response(<<0>>, "h_text", 200, 1), NoDomain)
    \/ \E k \in ExpiryKeys : CacheGet(k)
    \/ Tick(1)

SpecExpiry == InitCacheOnly /\ [][NextExpiry]_vars

\* stores under every key of bodies around the size limit
NextSizes ==
    \E k \in Keys, r \in SizeResponses : CacheSet(k, r, NoDomain)

SpecSizes == InitCacheOnly /\ [][NextSizes]_vars

\* the throttle manager used directly
NextThrottle ==
    \/ \E d \in {"x", "y"} : ThrottleRecord(d)
    \/ \E d \in {"x", "y"} : ThrottleDecide(d)
    \/ \E d \in {1, time_window} : ticks < MaxThrottleTicks /\ Tick(d)

SpecThrottle == InitThrottleOnly /\ [][NextThrottle]_vars

\* the throttle manager over a longer time: the window empties and penalties
\* end
NextPenalty ==
    \/ ThrottleRecord("x")
    \/ ThrottleDecide("x")
    \/ \E d \in {1, time_window} : PenaltyTick(d)

SpecPenalty == InitThrottleOnly /\ [][NextPenalty]_vars

\* the throttle manager with an administrator who resets domains, within one
\* second of the clock
NextReset ==
    \/ \E d \in {"x", "y"} : ThrottleRecord(d)
    \/ \E d \in {"x", "y"} : ThrottleDecide(d)
    \/ \E d \in {"x", "y"} : ThrottleReset(d)

SpecReset == InitThrottleOnly /\ [][NextReset]_vars

\* requests handled one after the other by the pipeline
PipelineSteps(w) ==
    \/ Security(w)
    \/ Route(w)
    \/ Lookup(w)
    \/ Record(w)
    \/ Decide(w)
    \/ GetDelay(w)
    \/ GetState(w)
    \/ \E o \in UpstreamOutcomes : Forward(w, o)
    \/ Store(w)
    \/ Respond(w)
    \/ Transparent(w)

\* time passes between two requests
TickIdle == (\A w \in Workers : pc[w] = "idle") /\ Tick(1)

Next ==
    \/ \E w \in Workers, m \in Methods, d \in RequestDomains, p \in Rests,
          k \in ClientKeys : Begin(w, m, d, p, k, MaxRequests)
    \/ \E w \in Workers : PipelineSteps(w)
    \/ TickIdle

Spec == InitPipeline0 /\ [][Next]_vars

\* the steps of a request that is not looked up in the cache
BurstSteps(w) ==
    \/ Security(w)
    \/ Route(w)
    \/ Record(w)
    \/ Decide(w)
    \/ GetDelay(w)
    \/ GetState(w)
    \/ \E o \in UpstreamOutcomes : Forward(w, o)
    \/ Respond(w)

\* a burst of requests to domain x that bypass the cache, with no time passing
NextBurst ==
    \/ \E w \in Workers, p \in Rests :
          Begin(w, "PUT", "x", p, "good", BurstRequests)
    \/ \E w \in Workers : BurstSteps(w)

SpecBurst == InitPipeline0 /\ [][NextBurst]_vars

\* the steps of a GET to a mapped domain whose upstream answers 200
ScenarioSteps(w) ==
    \/ Security(w)
    \/ Route(w)
    \/ Lookup(w)
    \/ Record(w)
    \/ Decide(w)
    \/ GetDelay(w)
    \/ GetState(w)
    \/ Forward(w, "ok")
    \/ Store(w)
    \/ Respond(w)

\* GET requests for two paths of domain x, one after the other, with no time
\* passing and an upstream that answers 200
NextScenario ==
    \/ \E w \in Workers, p \in ScenarioRests :
          Begin(w, "GET", "x", p, "good", ScenarioRequests)
    \/ \E w \in Workers : ScenarioSteps(w)

SpecScenario == InitPipeline0 /\ [][NextScenario]_vars

\* requests to domain x that carry no secret, the configured one or a wrong
\* one, in a header, as a path prefix or in the query, with a relative or an
\* absolute target
NextRequests ==
    \/ \E w \in Workers, m \in Methods, k \in SuppliedKeys, v \in Vias,
          t \in Targets :
          /\ t = "absolute" => v = "header"
          /\ BeginVia(w, m, "x", "a", k, v, t, MaxFormRequests)
    \/ \E w \in Workers : PipelineSteps(w)
    \/ \E w \in Workers : RespondDisconnected(w)

SpecRequests == InitPipeline0 /\ [][NextRequests]_vars

\* requests that go to the upstream while the proxy is being stopped
NextStop ==
    \/ \E w \in Workers : Begin(w, "PUT", "x", "a", "good", StopRequests)
    \/ \E w \in Workers : BurstSteps(w)
    \/ ServerStop
    \/ ProxyStopCloseDb

SpecStop == InitPipeline0 /\ [][NextStop]_vars

\* threads borrowing and returning connections, and closing the pool
NextPool ==
    \/ PoolGet
    \/ \E c \in 1 .. MaxConns : PoolReturn(c)
    \/ PoolClose

SpecPool == InitThrottleOnly /\ [][NextPool]_vars

\* statements run through execute_query and execute_update
NextRetry ==
    \/ \E op \in {"query", "update"}, r \in RetryChoices, d \in DelayChoices :
          ExecBegin(op, r, d)
    \/ \E e \in AttemptOutcomes : ExecAttempt(e)
    \/ \E j \in Jitters : ExecSleep(j)
    \/ ExecFinally
    \/ ExecLoopEnd

SpecRetry == InitThrottleOnly /\ [][NextRetry]_vars

\* an update that borrows its connections while other threads borrow theirs
\* and return them, oldest first
NextBorrow ==
    \/ \E r \in {0, 2} : ExecBegin("update", r, default_delay)
    \/ \E e \in AttemptOutcomes : ExecAttempt(e)
    \/ ExecSleep(0)
    \/ ExecFinally
    \/ ExecLoopEnd
    \/ PoolGet
    \/ \E c \in held : (\A d \in held : c <= d) /\ PoolReturn(c)

SpecBorrow == InitThrottleOnly /\ [][NextBorrow]_vars

\* admin requests from two clients handled by two threads
NextAdmin ==
    \/ \E t \in AdminThreads, ip \in AdminIPs : AdminBegin(t, ip)
    \/ \E t \in AdminThreads : AdminHasattr(t)
    \/ \E t \in AdminThreads : AdminCreate(t)
    \/ \E t \in AdminThreads : AdminCall(t)
    \/ \E t \in AdminThreads : AdminLocked(t)
    \/ \E d \in {1, 60} : AdminTick(d)

SpecAdmin == InitThrottleOnly /\ [][NextAdmin]_vars

\* extract_secure_key applied to every combination of arguments
InitExtract ==
    /\ InitComponents /\ ~require_secure_key /\ has_ttl_manager /\ tz = 0
    /\ fn_in \in ExtractInputs
    /\ fn_out = NoFn

NextExtract == ApplyExtract

SpecExtract == InitExtract /\ [][NextExtract]_vars

\* generate_cache_key applied to every pair of requests
InitCacheKey ==
    /\ InitComponents /\ ~require_secure_key /\ has_ttl_manager /\ tz = 0
    /\ fn_in \in KeyInputs
    /\ fn_out = NoFn

NextCacheKey == ApplyCacheKey

SpecCacheKey == InitCacheKey /\ [][NextCacheKey]_vars

\* a proxy that is started and stopped while connections are borrowed, and
\* the one borrowed last is returned
NextLifecycle ==
    \/ ProxyStart
    \/ ProxyStartBindFails
    \/ ProxyStartRunning
    \/ ProxyStop
    \/ PoolGet
    \/ PoolReturnLast

SpecLifecycle == InitThrottleOnly /\ [][NextLifecycle]_vars

\* handler threads passing cache-missing requests for x through the throttle
\* section, within one second of the clock
NextGate ==
    \/ \E t \in GateThreads : GateRecord(t)
    \/ \E t \in GateThreads : GateDecide(t)
    \/ \E t \in GateThreads : GateGetDelay(t)
    \/ \E t \in GateThreads : GateGetState(t)

SpecGate == InitThrottleOnly /\ [][NextGate]_vars

\* the same threads, with a clock that advances between their calls
NextGateClock ==
    \/ NextGate
    \/ \E d \in {1, time_window} : GateTick(d)

SpecGateClock == InitThrottleOnly /\ [][NextGateClock]_vars

\* threads storing responses of their own, under keys that may be the same,
\* within one second of the clock
NextStores ==
    \/ \E t \in Threads, k \in Keys, r \in StoreResponses : StoreBegin(t, k, r)
    \/ \E t \in Threads : StoreReplace(t)
    \/ \E t \in Threads : ThreadEvictCount(t)
    \/ \E t \in Threads : ThreadEvictSelect(t)
    \/ \E t \in Threads : ThreadEvictDelete(t)
    \/ \E t \in Threads : ThreadSetFinish(t)

SpecStores == InitThrottleOnly /\ [][NextStores]_vars

\* threads calling set, get and delete on one CacheEngine
NextThreads ==
    \/ \E t \in Threads, k \in Keys : ThreadSetBegin(t, k)
    \/ \E t \in Threads : ThreadSetReplace(t)
    \/ \E t \in Threads : ThreadEvictCount(t)
    \/ \E t \in Threads : ThreadEvictSelect(t)
    \/ \E t \in Threads : ThreadEvictDelete(t)
    \/ \E t \in Threads : ThreadSetFinish(t)
    \/ \E t \in Threads, k \in Keys : ThreadGetSelect(t, k)
    \/ \E t \in Threads : ThreadGetFinish(t)
    \/ \E t \in Threads, k \in Keys : ThreadDelete(t, k)
    \/ ticks < MaxThreadTicks /\ Tick(1)

SpecThreads == InitThrottleOnly /\ [][NextThreads]_vars

(***************************************************************************)
(* Properties of the cache engine.                                         *)
(***************************************************************************)
\* the step is a successful lookup of key k
HitOn(k) == stats'.hits = stats.hits + 1 /\ last'.op = "get" /\ last'.key = k

\* C3: a lookup made at a time now >= created_at + ttl_seconds of the stored
\* entry is never a hit (checked under SpecCache)
C3_ExpiredEntryNeverReturned ==
    [][\A k \in DOMAIN entries :
          HitOn(k) => now < entries[k].created_at + entries[k].ttl_seconds]_vars

\* C7: an eviction removes the least recently used entries: every evicted
\* entry was last stored or read before every entry that stays (checked under
\* SpecCache)
C7_EvictsLeastRecentlyUsed ==
    \A e \in last.evicted : \A k \in DOMAIN entries : touch[e[1]] < touch[k]

\* C8: a lookup that hits returns the body, headers and status that were last
\* stored under the key (checked under SpecRoundTrip)
C8_RoundTrip ==
    (last.op = "get" /\ last.outcome = "hit") =>
        /\ last.resp.data = stored[last.key].data
        /\ last.resp.headers = stored[last.key].headers
        /\ last.resp.status_code = stored[last.key].status_code

\* C19: a set of a body of at most max_response_size bytes (uncompressed), and
\* so of exactly max_response_size bytes, is stored and counted in stats.sets;
\* a set of a longer body, and so of max_response_size + 1 bytes, reports the
\* rejection, writes and evicts no entry and leaves the statistics, stats.sets
\* included, as they were (checked under SpecSizes)
C19_SizeBoundary ==
    [][(last'.op = "set" /\ now' = now) =>
           LET n == Len(last'.resp.data)
           IN  /\ n <= max_response_size =>
                      /\ last'.outcome = "stored"
                      /\ last'.key \in DOMAIN entries'
                      /\ stats'.sets = stats.sets + 1
               /\ n > max_response_size =>
                      /\ last'.outcome = "rejected"
                      /\ entries' = entries
                      /\ stats' = stats]_vars

\* a body of max_response_size + 1 bytes has just been refused for a key that
\* holds a body of exactly max_response_size bytes
C19_Witness ==
    /\ last.op = "set"
    /\ Len(last.resp.data) = max_response_size + 1
    /\ last.outcome = "rejected"
    /\ last.key \in DOMAIN entries
    /\ Len(stored[last.key].data) = max_response_size

(***************************************************************************)
(* Properties of the throttle manager.                                     *)
(***************************************************************************)
\* the calls on a domain so far are record_request, should_throttle pairs
Paired(h) ==
    /\ Len(h) % 2 = 0
    /\ \A i \in 1 .. Len(h) : (h[i].ev = "record") <=> (i % 2 = 1)

\* the calls on a domain so far fall within one window
OneWindow(h) == h = <<>> \/ h[Len(h)].at - h[1].at <= time_window

\* C9: on a fresh domain with limit L, in a run of record_request,
\* should_throttle pairs within one window the first L decisions are "pass"
\* and the (L+1)-th is "throttle" (checked under SpecThrottle)
C9_LimitBoundary ==
    \A d \in MappedDomains :
        (Paired(hist[d]) /\ OneWindow(hist[d])) =>
            \A j \in 1 .. (Len(hist[d]) \div 2) :
                /\ j <= limit_for(d) => hist[d][2 * j].ev = "pass"
                /\ j = limit_for(d) + 1 => hist[d][2 * j].ev = "throttle"

\* a domain without a limit of its own has been taken one pair over the
\* default limit
C9_Witness ==
    /\ Paired(hist["y"]) /\ OneWindow(hist["y"])
    /\ Len(hist["y"]) = 2 * (limit_for("y") + 1)
    /\ hist["y"][Len(hist["y"])].ev = "throttle"

\* C10: after k over-limit decisions delay_seconds is min(progressive_max_delay,
\* 2^k), and a burst of cache-missing requests to a domain with limit L gets L
\* forwarded requests followed by 429 responses whose Retry-After values are
\* min(progressive_max_delay, 2^j), j = 1, 2, ... (checked under SpecBurst)
C10_BackOff ==
    /\ states["x"].delay_seconds =
           IF states["x"].violations = 0 THEN 1
           ELSE Min(progressive_max_delay, Pow2(states["x"].violations))
    /\ \A i \in 1 .. Len(served) :
           IF i <= limit_for("x")
           THEN served[i].status_code # 429
           ELSE /\ served[i].status_code = 429
                /\ served[i].retry_after =
                       Min(progressive_max_delay, Pow2(i - limit_for("x")))

\* six requests of a burst have been answered and the last Retry-After is the
\* maximum delay
C10_Witness ==
    /\ Len(served) >= 6
    /\ served[6].status_code = 429
    /\ served[6].retry_after = progressive_max_delay
    /\ served[3].retry_after < served[4].retry_after

\* the timestamps of domain d that a call at the present time keeps
WindowCount(d) ==
    Cardinality({i \in DOMAIN states[d].request_timestamps :
                    now - states[d].request_timestamps[i] <= time_window})

\* this step is a should_throttle call on domain d
DecisionStep(d) ==
    /\ Len(hist'[d]) = Len(hist[d]) + 1
    /\ IsDecision(hist'[d][Len(hist'[d])])

\* this step is a reset_throttle call on domain d
ResetStep(d) ==
    /\ Len(hist'[d]) = Len(hist[d]) + 1
    /\ IsReset(hist'[d][Len(hist'[d])])

\* C23: with the window count at or below the limit, should_throttle returns
\* true while delay_seconds > 1 and fewer than delay_seconds seconds have
\* passed since last_violation, and returns false once at least
\* delay_seconds seconds have passed (checked under SpecPenalty)
C23_PenaltyWindow ==
    [][\A d \in MappedDomains :
          (DecisionStep(d) /\ WindowCount(d) <= limit_for(d)) =>
              LET st == states[d]
                  e == hist'[d][Len(hist'[d])]
              IN  /\ (st.delay_seconds > 1
                         /\ now - st.last_violation < st.delay_seconds) =>
                         e.ev = "throttle"
                  /\ now - st.last_violation >= st.delay_seconds =>
                         e.ev = "pass"]_vars

\* a call inside the penalty window was throttled although the window count
\* was within the limit, and a later call, made when the penalty was over,
\* passed
C23_Witness ==
    \E d \in MappedDomains : \E i, j \in DOMAIN hist[d] :
        /\ i < j
        /\ hist[d][i].ev = "throttle" /\ ~hist[d][i].over
        /\ hist[d][j].ev = "pass"
        /\ states[d].delay_seconds > 1
        /\ now - states[d].last_violation = states[d].delay_seconds

(***************************************************************************)
(* Properties of the request pipeline.                                     *)
(***************************************************************************)
Has(tr, step) == \E i \in 1 .. Len(tr) : tr[i] = step

\* C1: a request answered from the cache made no record_request and no
\* should_throttle call and left the throttle state of its domain as it found
\* it (checked under Spec)
C1_CacheHitBypassesThrottle ==
    Has(done.trace, "lookup_hit") =>
        /\ ~Has(done.trace, "record")
        /\ ~Has(done.trace, "throttled")
        /\ ~Has(done.trace, "not_throttled")
        /\ done.resp.source = "cache"
        /\ done.post = done.req.snap

\* a request was answered from the cache while its domain was over its limit
C1_Witness ==
    /\ Has(done.trace, "lookup_hit")
    /\ Len(done.req.snap.request_timestamps) > limit_for(done.req.domain)
    /\ done.req.snap.delay_seconds > 1

\* the steps that come before an upstream call, in order
StepsBeforeForward(method) ==
    IF method \in CachedMethods
    THEN <<"security", "route", "lookup_miss", "record", "not_throttled">>
    ELSE <<"security", "route", "record", "not_throttled">>

\* tr up to and including its upstream call
UpToForward(tr) ==
    SubSeq(tr, 1, CHOOSE i \in 1 .. Len(tr) : tr[i] = "forward_call")

OrderedRequest(method, tr) ==
    Has(tr, "forward_call") =>
        UpToForward(tr) = Append(StepsBeforeForward(method), "forward_call")

C4_OnlySuccessIsStored ==
    /\ Has(done.trace, "store_ok") => done.fwd.ok
    /\ done.resp.source = "cache" => done.resp.status_code = 200

\* C5: a request whose response was forwarded and handed to the cache gets the
\* status, headers and body that _forward_request returned, whatever the store
\* did (checked under Spec)
C5_StoreFailureIsNotFatal ==
    (Has(done.trace, "store_ok") \/ Has(done.trace, "store_rejected")
        \/ Has(done.trace, "store_raised")) =>
        /\ done.resp.status_code = done.fwd.status_code
        /\ done.resp.headers = done.fwd.headers
        /\ done.resp.data = done.fwd.data

(***************************************************************************)
(* Properties of the cache under concurrent calls.                         *)
(***************************************************************************)
\* C6: when a store returns, whatever set, get and delete calls other threads
\* have interleaved with it, the table holds at most max_cache_entries rows
\* (checked under SpecThreads)
C6_SizeBoundAfterStore == concluded.size <= max_cache_entries

\* a store that evicted returned after another thread deleted a row during its
\* eviction loop
C6_Witness ==
    /\ concluded.thread # 0
    /\ concluded.evictions > 0
    /\ concluded.raced

(***************************************************************************)
(* Properties of the security step.                                        *)
(***************************************************************************)
Finished == done.req.method # "none"

\* the secret extracted from the finished request is a non-empty string equal
\* to the configured secret
SecretAccepted ==
    LET key == extract_secure_key(done.req).key
    IN  key.kind = "str" /\ key.value = "good"

\* C11: with require_secure_key on, a request goes past the security step if
\* and only if the extracted secret is non-empty and equal to the configured
\* one; any other request is answered 401 and does nothing else: no cache
\* lookup, no throttle accounting, no upstream call, no store (checked under
\* SpecRequests)
C11_SecurityGate ==
    (require_secure_key /\ Finished) =>
        /\ Has(done.trace, "security") <=> SecretAccepted
        /\ ~SecretAccepted =>
               /\ done.resp.status_code = 401
               /\ done.trace = <<"unauthorized">>
               /\ done.post = done.req.snap
               /\ ~done.fwd.called

\* C12: with the secret configured and required, a request to a mapped domain
\* with a relative target that carries the secret as a path prefix, in the
\* key query parameter or in the X-API-Buddy-Key header is authorized, routed
\* to that domain and, when it is forwarded, forwarded to the domain's
\* upstream; the same request without a secret is answered 401 (checked under
\* SpecRequests)
C12_ThreeWaysToAuthenticate ==
    (require_secure_key /\ Finished /\ done.req.target = "relative"
         /\ done.req.domain \in MappedDomains) =>
        /\ done.req.key = "good" =>
               /\ Has(done.trace, "security")
               /\ Has(done.trace, "route")
               /\ ~Has(done.trace, "forward_local")
        /\ done.req.key = "none" => done.resp.status_code = 401

(***************************************************************************)
(* Properties of the store made by the pipeline.                           *)
(***************************************************************************)
\* C13: when the pipeline stores the response it was given for a request to
\* mapped domain d, the entry written carries d's ttl_seconds override if d
\* has one and cache.default_ttl_seconds otherwise, never an unset TTL
\* (checked under Spec)
C13_PipelineStoreResolvesTtl ==
    [][\A w \in Workers :
          (pc[w] = "store" /\ pc'[w] # "store") =>
              LET k == generate_cache_key(req[w].method, self_path(req[w]))
              IN  /\ k \in DOMAIN entries'
                  /\ entries'[k].ttl_seconds = get_ttl_for_domain(req[w].domain)
                  /\ entries'[k].ttl_seconds # NoTtl]_vars

(***************************************************************************)
(* Properties of error handling in the pipeline.                           *)
(***************************************************************************)
\* C14: no exception leaves _handle_request: a failure inside the pipeline
\* ends in a response with an HTTP status, and a failed write to a client that
\* has disconnected is logged and ignored (checked under SpecRequests)
C14_NoExceptionEscapes ==
    /\ ~Has(done.trace, "escaped")
    /\ \A w \in Workers : ~Has(trace[w], "escaped")
    /\ Finished => done.resp.status_code # 0

(***************************************************************************)
(* The cache-first scenario.                                               *)
(***************************************************************************)
\* the i-th request served was for path p (every request of the scenario is
\* a GET for domain x)
ServedGet(i, p) == served[i].rest = p

\* C15: with limit 1 for domain x and an upstream answering 200, the requests
\* GET /x/a, GET /x/a, GET /x/b made to a fresh proxy are answered 200 from
\* the upstream, 200 from the cache and 429 with Retry-After 2, and one
\* upstream call is made in all (checked under SpecScenario)
C15_CacheFirstScenario ==
    (Len(served) = 3 /\ ServedGet(1, "a") /\ ServedGet(2, "a")
         /\ ServedGet(3, "b")) =>
        /\ served[1].status_code = 200 /\ served[1].source = "upstream"
        /\ served[2].status_code = 200 /\ served[2].source = "cache"
        /\ served[3].status_code = 429 /\ served[3].retry_after = 2
        /\ upstream_calls = 1

\* C17: no log message written while a request is processed contains the
\* configured secret, whether the client sent the secret as a path prefix, as
\* the key query parameter or in a header, and whether the request was
\* authorized or rejected (checked under SpecRequests)
C17_SecretNeverLogged ==
    \A i \in DOMAIN log : ~log[i].secret

\* C18: a request whose target is the absolute URL http://x/a, x being a
\* mapped domain with an upstream, is routed to x (cache key and throttle
\* accounting under x) and, on a cache miss that is not throttled, is
\* forwarded to the upstream of x instead of being answered with a routing
\* error (checked under SpecRequests)
C18_AbsoluteUrlIsForwarded ==
    (Finished /\ done.req.target = "absolute"
         /\ done.req.domain \in MappedDomains /\ Has(done.trace, "security")) =>
        /\ Has(done.trace, "route")
        /\ ~Has(done.trace, "forward_local")
        /\ Has(done.trace, "not_throttled") =>
               /\ Has(done.trace, "forward_call")
               /\ done.fwd.called
               /\ done.resp.status_code # 404

(***************************************************************************)
(* Properties of stopping the server.                                      *)
(***************************************************************************)
\* C16: when ThreadedHTTPServer.stop() has returned, and so when
\* CachingProxy.stop() closes the database pool, no request handler is still
\* running: every handler in flight when stop() was called has finished its
\* pipeline and written its response (checked under SpecStop)
C16_StopWaitsForHandlers ==
    server \in {"stopped", "db_closed"} => \A w \in Workers : pc[w] = "idle"

(***************************************************************************)
(* Properties of the connection pool.                                      *)
(***************************************************************************)
\* C20: in every reachable state, whatever the interleaving of borrows,
\* returns and closes, the pool holds at most max_pool_size idle connections,
\* and a connection returned while the pool was full has been closed and is
\* not in the pool (checked under SpecPool)
C20_PoolBounded ==
    /\ Len(pool) <= max_pool_size
    /\ (pool_last.op = "return" /\ pool_last.full) =>
           /\ pool_last.conn \in closed_conns
           /\ \A i \in DOMAIN pool : pool[i] # pool_last.conn

\* a connection has just been returned to a full pool
C20_Witness ==
    /\ pool_last.op = "return"
    /\ pool_last.full
    /\ Len(pool) = max_pool_size
    /\ pool_last.conn \in closed_conns

(***************************************************************************)
(* Properties of execute_query and execute_update.                         *)
(***************************************************************************)
\* C21: a query or update makes at most retries attempts; an attempt that
\* fails with a "locked" error is retried, after a sleep of at most one second,
\* as long as attempts remain; the "locked" error of the last attempt is raised;
\* any other error is raised on the attempt where it occurs, with no further
\* attempt (checked under SpecRetry)
C21_BoundedRetry ==
    LET n == Len(call.outs)
        Ends(x) == call.pc = x \/ (call.pc = "finally" /\ call.after = x)
    IN  /\ n <= call.retries
        /\ call.slept <= 1000
        /\ call.sleeps <= n
        /\ \A i \in 1 .. (n - 1) : call.outs[i] = "locked"
        /\ (n > 0 /\ call.outs[n] = "locked") =>
               IF n < call.retries
               THEN /\ call.pc = "backoff" \/ Ends("loop")
                    /\ call.sleeps \in {n - 1, n}
               ELSE Ends("raised") /\ call.result = "locked"
        /\ (n > 0 /\ call.outs[n] \in {"operational", "integrity"}) =>
               Ends("raised") /\ call.result = call.outs[n]
        /\ call.pc = "raised" => n > 0 /\ call.result = call.outs[n]

\* the default number of attempts has been used up on "locked" errors, with a
\* capped sleep before the last one, and the last error has been raised
C21_Witness ==
    /\ call.retries = default_retries
    /\ Len(call.outs) = default_retries
    /\ call.pc = "raised"
    /\ call.result = "locked"
    /\ call.sleeps = default_retries - 1
    /\ call.slept = 1000

(***************************************************************************)
(* Properties of the admin rate limiter.                                   *)
(***************************************************************************)
\* the admitted requests of the i-th request's client among the first n
\* requests, with a time later than t
AdmittedSince(ip, n, t) ==
    {j \in 1 .. n : /\ admin_log[j].ip = ip
                    /\ admin_log[j].allowed
                    /\ admin_log[j].time > t}

\* C22: for each client IP, whatever the interleaving of the admin requests,
\* at most rate_limit_per_minute requests are admitted within any 60 seconds,
\* every further request in that time is answered 429 RATE_LIMIT_EXCEEDED,
\* and only the client's own admitted requests count against it (checked
\* under SpecAdmin)
C22_AdminRateLimit ==
    \A i \in DOMAIN admin_log :
        LET r == admin_log[i]
        IN  /\ r.allowed =>
                   Cardinality(AdmittedSince(r.ip, Len(admin_log), r.time - 60)
                                   \cap {j \in DOMAIN admin_log :
                                            admin_log[j].time <= r.time})
                       <= rate_limit_per_minute
            /\ ~r.allowed =>
                   /\ r.status_code = 429
                   /\ r.error_code = "RATE_LIMIT_EXCEEDED"
                   /\ Cardinality(AdmittedSince(r.ip, i - 1, r.time - 60))
                          >= rate_limit_per_minute

(***************************************************************************)
(* Properties of the throttle state over time and of reset_throttle.       *)
(***************************************************************************)
\* the events of domain d since its state was created or last reset
RECURSIVE SinceReset(_)
SinceReset(h) ==
    IF h = <<>> THEN <<>>
    ELSE IF IsReset(h[Len(h)]) THEN <<>>
    ELSE Append(SinceReset(SubSeq(h, 1, Len(h) - 1)), h[Len(h)])

ThrottledAt(h) == {i \in DOMAIN h : h[i].ev = "throttle"}

\* C24: for every domain, violations is the number of should_throttle calls
\* that returned true since the state was created or last reset, and
\* last_violation is the time of the most recent of them (checked under
\* SpecPenalty)
C24_ViolationsCountThrottles ==
    \A d \in MappedDomains :
        LET h == SinceReset(hist[d])
        IN  /\ states[d].violations = Cardinality(ThrottledAt(h))
            /\ ThrottledAt(h) # {} =>
                   states[d].last_violation =
                       h[CHOOSE i \in ThrottledAt(h) :
                             \A j \in ThrottledAt(h) : j <= i].at

\* C25: whatever record_request, should_throttle and get_throttle_delay calls
\* are made on a domain, and however much time passes, delay_seconds does not
\* decrease; only reset_throttle lowers it (checked under SpecPenalty)
C25_DelayNeverDecays ==
    [][\A d \in MappedDomains :
          states'[d].delay_seconds >= states[d].delay_seconds
              \/ ResetStep(d)]_vars

\* the window of a domain has emptied, more than a window's time has passed
\* since its last violation, a call has passed, and its delay is still above 1
C25_Witness ==
    \E d \in MappedDomains :
        /\ states[d].delay_seconds > 1
        /\ states[d].request_timestamps = <<>>
        /\ now - states[d].last_violation > time_window
        /\ hist[d] # <<>>
        /\ hist[d][Len(hist[d])].ev = "pass"

\* C26: reset_throttle(d) puts d back in the initial state (no timestamps,
\* violations 0, delay_seconds 1) and leaves every other domain as it was,
\* and the next should_throttle(d) returns false (checked under SpecReset)
C26_ResetRestoresInitialState ==
    [][\A d \in MappedDomains :
          /\ ResetStep(d) =>
                 /\ states'[d].request_timestamps = <<>>
                 /\ states'[d].violations = 0
                 /\ states'[d].delay_seconds = 1
                 /\ \A e \in MappedDomains \ {d} : states'[e] = states[e]
          /\ (DecisionStep(d) /\ hist[d] # <<>> /\ IsReset(hist[d][Len(hist[d])])) =>
                 hist'[d][Len(hist'[d])].ev = "pass"]_vars

\* a domain that was being throttled has been reset and its next call has
\* passed, while another domain kept the requests it had recorded
C26_Witness ==
    \E d, e \in MappedDomains : \E i \in DOMAIN hist[d] :
        /\ d # e
        /\ i + 2 <= Len(hist[d])
        /\ hist[d][i].ev = "throttle"
        /\ hist[d][i + 1].ev = "reset"
        /\ hist[d][i + 2].ev = "pass"
        /\ states[e].total_requests > 0

(***************************************************************************)
(* Properties of the secret extraction.                                    *)
(***************************************************************************)
\* the value each source of the request offers, None when it offers none
PathSecret(in) ==
    LET p == in.request_path
    IN  IF p.slash /\ Len(p.segs) >= 2
           /\ SegLen(p.segs[1]) \in 32 .. 44
        THEN p.segs[1] ELSE None

QuerySecret(in) ==
    IF in.query_params.key \in {None, ""} THEN None ELSE in.query_params.key

HeaderSecret(in) ==
    IF in.headers.x_api_buddy_key \in {None, ""} THEN None
    ELSE in.headers.x_api_buddy_key

BearerSecret(in) ==
    IF in.headers.authorization.scheme \in {"Bearer", "bearer"}
       /\ in.headers.authorization.token # ""
    THEN in.headers.authorization.token ELSE None

\* the first value of a sequence that is not None
RECURSIVE FirstFound(_)
FirstFound(vs) ==
    IF vs = <<>> THEN None
    ELSE IF vs[1] # None THEN vs[1] ELSE FirstFound(Tail(vs))

\* C27: extract_secure_key returns the first secret found in the order path
\* prefix, query parameter key, header X-API-Buddy-Key, Authorization Bearer
\* token, ignoring the later sources; the returned path has lost its first
\* segment exactly when the secret came from the path, and is the request
\* path otherwise (checked under SpecExtract)
C27_ExtractionOrder ==
    fn_out.fn = "extract_secure_key" =>
        /\ fn_out.key = FirstFound(<<PathSecret(fn_in), QuerySecret(fn_in),
                                     HeaderSecret(fn_in), BearerSecret(fn_in)>>)
        /\ fn_out.sanitized_path =
               IF PathSecret(fn_in) # None
               THEN [fn_in.request_path EXCEPT !.segs = Tail(@)]
               ELSE fn_in.request_path

\* the query parameter has won over both headers, and the path is unchanged
C27_Witness ==
    /\ fn_out.fn = "extract_secure_key"
    /\ PathSecret(fn_in) = None
    /\ QuerySecret(fn_in) # None
    /\ HeaderSecret(fn_in) # None
    /\ BearerSecret(fn_in) # None
    /\ fn_out.key = "Kq"
    /\ fn_out.sanitized_path = fn_in.request_path

(***************************************************************************)
(* Properties of the cache key.                                            *)
(***************************************************************************)
\* the pairs of a query, whatever their order
PairBag(q) == [p \in {q[i] : i \in DOMAIN q} |->
                  Cardinality({i \in DOMAIN q : q[i] = p})]

\* two URLs differ at most in the case of scheme and host, in trailing
\* slashes of a path other than "/", and in the order of the query pairs
SameUrlUpToSpelling(u, v) ==
    /\ Lower(u.scheme) = Lower(v.scheme)
    /\ Lower(u.netloc) = Lower(v.netloc)
    /\ u.segs = v.segs
    /\ u.segs = <<>> => u.slashes = v.slashes
    /\ PairBag(u.query) = PairBag(v.query)

\* two bodies are the same bytes, or are application/json bodies that
\* deserialize to the same value
SameBodyUpToSpelling(a, b) ==
    /\ a.content_type = b.content_type
    /\ \/ a.body = b.body
       \/ /\ a.content_type = "application/json; charset=utf-8"
          /\ a.body.json /\ b.body.json
          /\ a.body.value = b.body.value

C29_StopWhenNotRunningDoesNothing ==
    (proxy.last_stop.called /\ ~proxy.last_stop.was_running) =>
        /\ ~proxy.running
        /\ ~proxy.last_stop.server_stopped
        /\ ~proxy.last_stop.pool_closed
        /\ ~proxy.last_stop.on_shutdown

(***************************************************************************)
(* Properties of concurrent stores.                                        *)
(***************************************************************************)
\* the row set writes for a response: the body (compressed above the
\* threshold), the serialized headers and the status
HoldsResponse(row, r) ==
    /\ row.data = IF Len(r.data) > compression_threshold
                  THEN zlib_compress(r.data) ELSE r.data
    /\ row.headers = json_dumps(r.headers)
    /\ row.status_code = r.status_code

\* C30: after any number of sequential or concurrent stores of a key, when no
\* store is in its locked section, there is exactly one entry for the key
\* stored last and it holds the body, headers and status of the store that
\* executed last (checked under SpecStores)
C30_LastStoreWins ==
    (store.last.key # 0 /\ lock = 0) =>
        /\ store.last.key \in DOMAIN entries
        /\ HoldsResponse(entries[store.last.key], store.last.resp)

\* two threads had both begun to store the same key, with different
\* responses, before either reached the REPLACE; both stores have returned
\* and the entry holds the response of the later one
C30_Witness ==
    /\ lock = 0
    /\ \A t \in Threads : th[t].pc = "idle"
    /\ store.last.overlapped
    /\ store.last.replaced \notin {NoRequest, store.last.resp}
    /\ store.last.key \in DOMAIN entries
    /\ HoldsResponse(entries[store.last.key], store.last.resp)

(***************************************************************************)
(* Properties of the cache mutex.                                          *)
(***************************************************************************)
\* C31: every statement that changes the cache table is executed by the
\* thread that holds the CacheEngine mutex, so no two mutations of different
\* threads are in progress at the same time (checked under SpecThreads)
C31_MutationsHoldTheMutex ==
    [][entries' # entries =>
           \E t \in Threads :
               /\ lock = t \/ lock' = t
               /\ th'[t].pc # th[t].pc]_vars

(***************************************************************************)
(* Properties of the throttle section under concurrent requests.           *)
(***************************************************************************)
Forwarded == {e \in gate_log : e.outcome = "forward"}
Throttled == {e \in gate_log : e.outcome = "throttle"}
InFlight == {t \in GateThreads : gate[t].pc # "idle"}

\* every record_request made so far: its number and its time
GateRecords ==
    {[no |-> e.rec_no, at |-> e.rec_at] : e \in gate_log}
    \cup {[no |-> gate[t].rec_no, at |-> gate[t].rec_at] : t \in InFlight}

\* C32 as stated: of the requests for x recorded within one window of 3600
\* seconds, at most limit_for(x) reach the forward step (checked under
\* SpecGateClock)
C32_LimitPerRecordWindow ==
    \A e \in Forwarded :
        Cardinality({f \in Forwarded :
                         /\ e.rec_at <= f.rec_at
                         /\ f.rec_at - e.rec_at < time_window})
            <= limit_for("x")

\* C32, amended: under any interleaving a request reaches the forward step
\* only if at most limit_for(x) requests for x, its own included, were
\* recorded in the 3600 seconds up to its own should_throttle decision
\* (checked under SpecGateClock)
C32_LimitAtDecision ==
    \A e \in Forwarded :
        Cardinality({r \in GateRecords :
                         /\ r.no <= e.nrecs
                         /\ e.dec_at - r.at <= time_window})
            <= limit_for("x")

\* a request was forwarded although another request was recorded between
\* its own record and its decision, and a request has been throttled
C32_Witness ==
    /\ \E e \in Forwarded : e.nrecs > e.rec_no
    /\ Throttled # {}
    /\ C32_LimitAtDecision

\* C33: when N requests for the fresh domain x arrive in the same second and
\* all have been answered, at least min(N, limit_for(x)) of them were
\* forwarded (checked under SpecGate)
C33_ConcurrentArrivalsFillTheLimit ==
    (InFlight = {} /\ gate_log # {}) =>
        Cardinality(Forwarded) >= Min(Cardinality(gate_log), limit_for("x"))

\* C34: the Retry-After and X-RateLimit-Remaining of a 429 equal the
\* delay_seconds and the window count in effect at that request's own
\* should_throttle decision (checked under SpecGate)
C34_HeadersOfOwnDecision ==
    \A e \in Throttled :
        /\ e.retry_after = e.dec_delay
        /\ e.remaining = IF limit_for("x") - e.dec_count > 0
                         THEN limit_for("x") - e.dec_count ELSE 0

GetStep(k) ==
    /\ stats'.hits + stats'.misses + stats'.expired
           = stats.hits + stats.misses + stats.expired + 1
    /\ last'.op = "get"
    /\ last'.key = k

\* C35: a lookup of a key whose entry the engine finds expired deletes that
\* entry, returns nothing, adds exactly 1 to stats.expired and changes no
\* other counter and no other entry, so that the key is absent for the next
\* request (checked under SpecExpiry)
C35_ExpiredLookup ==
    [][\A k \in DOMAIN entries :
          (GetStep(k)
           /\ now > entries[k].created_at - tz + entries[k].ttl_seconds) =>
              /\ last'.outcome = "expired"
              /\ last'.resp = NoResp
              /\ DOMAIN entries' = DOMAIN entries \ {k}
              /\ \A j \in DOMAIN entries' : entries'[j] = entries[j]
              /\ stats' = [stats EXCEPT !.expired = @ + 1]]_vars

\* an expired entry has just been looked up and removed while another entry
\* stayed in the cache
C35_Witness ==
    /\ last.op = "get"
    /\ last.outcome = "expired"
    /\ stats.expired = 1
    /\ last.key \notin DOMAIN entries
    /\ DOMAIN entries # {}

(***************************************************************************)
(* Properties of the connections borrowed by execute_query/execute_update. *)
(***************************************************************************)
PoolConns == {pool[i] : i \in DOMAIN pool}

\* C37: every connection borrowed by a query or update is given back, to the
\* pool or closed, exactly once on every path (success, retry after a
\* contention error, raise); while it is borrowed no other operation holds it
\* and it is not in the pool (checked under SpecBorrow)
C37_BorrowedConnectionsComeBack ==
    /\ (call.conn # 0) = (call.pc \in {"backoff", "finally"})
    /\ call.borrows = Len(call.outs)
    /\ call.borrows = call.returns + (IF call.conn # 0 THEN 1 ELSE 0)
    /\ call.conn # 0 =>
           /\ call.conn \notin held
           /\ call.conn \notin PoolConns
           /\ call.conn \notin closed_conns
    /\ held \cap PoolConns = {}
    /\ \A i, j \in DOMAIN pool : pool[i] = pool[j] => i = j

\* an update was retried after a contention error and then raised, both of
\* its connections have been given back, one of them closed because the pool
\* was full, while another operation still holds a connection
C37_Witness ==
    /\ call.pc = "raised"
    /\ Len(call.outs) = 2
    /\ call.outs[1] = "locked"
    /\ call.returns = 2
    /\ pool_last.op = "return" /\ pool_last.full
    /\ held # {}

(***************************************************************************)
(* Properties of the three mutexes together.                               *)
(***************************************************************************)
NextLocks ==
    \/ \E t \in LockThreads, o \in LockOps, v \in {0, 1, 2} : LockBegin(t, o, v)
    \/ \E t \in LockThreads : LockAcquire(t)
    \/ \E t \in LockThreads : LockRelease(t)
    \/ \E t \in LockThreads, ok \in BOOLEAN : LockConnect(t, ok)
    \/ \E t \in LockThreads, ok \in BOOLEAN : LockStatement(t, ok)
    \/ \E t \in LockThreads : LockEndFinally(t)
    \/ \E t \in LockThreads : LockUnwind(t)
    \/ \E t \in LockThreads : LockEnd(t)

SpecLocks == InitThrottleOnly /\ [][NextLocks]_vars

\* thread t is inside acquire, and the lock it asks for is held
Blocked(t) == Cur(t).k = "acq" /\ mutex[Cur(t).m] # 0

\* C38: no interleaving of lookups, stores, deletes, clears, stats reads,
\* record_request, should_throttle and pool borrows/returns deadlocks: no
\* thread asks for a mutex it holds, the threads that wait never wait for
\* each other in a cycle, a thread asking for a mutex holds only mutexes that
\* come before it in one order (cache or throttle, then pool), and a thread
\* that has left its operation, by return or by an exception of the storage
\* layer, holds no mutex.
C38_NoDeadlock ==
    LET Rank(m) == IF m = "pool" THEN 2 ELSE 1
    IN  /\ \A t \in LockThreads : Blocked(t) => mutex[Cur(t).m] # t
        /\ \A S \in SUBSET LockThreads :
               S # {} => \E t \in S : ~Blocked(t) \/ mutex[Cur(t).m] \notin S
        /\ \A t \in LockThreads :
               Cur(t).k = "acq" => \A h \in Holds(t) : Rank(h) < Rank(Cur(t).m)
        /\ \A t \in LockThreads :
               /\ Holds(t) = {work[t].withs[i] : i \in DOMAIN work[t].withs}
               /\ work[t].pc = "idle" => Holds(t) = {}
        /\ (\E t \in LockThreads : work[t].pc # "idle")
               => \E t \in LockThreads : work[t].pc # "idle" /\ ~Blocked(t)

\* a store has raised out of its with block, which released the cache mutex;
\* the other thread's lookup now holds it together with the pool mutex
C38_Witness ==
    \E t, u \in LockThreads :
        /\ work[t].pc = "idle" /\ work[t].op = "set" /\ work[t].exc = "stmt"
        /\ work[u].op = "get" /\ work[u].withs = <<"cache", "pool">>
        /\ Holds(u) = {"cache", "pool"}

(***************************************************************************)
(* Properties of CachingProxy.start.                                       *)
(***************************************************************************)
\* C39: is_running() is true exactly while the server is serving: after any
\* start() or stop(), running is set if and only if the server serves, also
\* when the proxy is started again after a stop.
C39_RunningIffServing == proxy.running <=> proxy.server = "serving"

(***************************************************************************)
(* Properties of _forward_request.                                         *)
(***************************************************************************)
InitForward ==
    /\ InitComponents /\ ~require_secure_key /\ has_ttl_manager /\ tz = 0
    /\ fn_in \in ForwardInputs
    /\ fn_out = NoFn

NextForward == ApplyForward

SpecForward == InitForward /\ [][NextForward]_vars

\* C40: without calling the upstream, the forward step answers 400 "Invalid
\* request path" when the first path segment is empty (the path / or the
\* empty path), 404 "Domain not mapped: <name>" when the first segment is not
\* a mapped domain, and 502 "No upstream configured for domain: <name>" when
\* it is mapped with an empty upstream.
C40_ForwardErrors ==
    fn_out # NoFn /\ fn_out.fn = "_forward_request" =>
        LET first == split(lstrip(fn_in.target_url))[1]
            res == fn_out.result
        IN  /\ first = <<>> =>
                   /\ res.status = 400 /\ res.msg = "Invalid request path"
                   /\ ~res.called
            /\ first # <<>> /\ ~InMappings(first) =>
                   /\ res.status = 404 /\ res.msg = "Domain not mapped: "
                   /\ res.name = first /\ ~res.called
            /\ InMappings(first) /\ upstream(first[1]) = "" =>
                   /\ res.status = 502
                   /\ res.msg = "No upstream configured for domain: "
                   /\ res.name = first /\ ~res.called

====
